---- MODULE Spec2Model ----
(***************************************************************************)
(* A model of the lidar protocol decoder (src/src/lidar.rs) of the robot:  *)
(* the serial byte stream, ScanPacket::from_buffer, LidarEngine (new, init,*)
(* poll, add_point) and the task of start_lidar_thread with its scan queue *)
(* and health status; and of the task of start_drivetrain_thread           *)
(* (src/src/drivetrain.rs).                                                *)
(*                                                                         *)
(* Unsigned 32-bit cabin words are kept as two 16-bit halves [lo, hi]      *)
(* (value = lo + 65536 * hi), because the model checker's integers are     *)
(* 32-bit signed.                                                          *)
(***************************************************************************)
EXTENDS Integers, Sequences, FiniteSets, TLC

(***************************************************************************)
(* Bounds of the model.                                                    *)
(***************************************************************************)
\* frames the lidar emits in one behaviour
MaxFrames == 4
\* stray bytes that may wait in front of a frame
MaxNoise == 1
\* mismatching response descriptors the device answers with
MaxInitMismatch == 6
\* frames the lidar emits in the behaviours of SpecHandshake and SpecTasks
MaxFramesShort == 2
\* a candidate capacity for the scan queue
ScanQueueCapacity == 1
\* points passed to add_point, and their largest angle, in SpecAddPoint
MaxPoints == 5
MaxAngle == 2

\* telemetry frames the drivetrain emits in a run
MaxTelemetry == 3

\* the size of the smaller chunk in which a frame's bytes may arrive
SmallChunk == 5

\* the latest time of a sample or of a query, in seconds
MaxTime == 5

\* the largest value of a sample of the f64 buffer
MaxValue == 1

\* the retention of the f64 buffer, in seconds
HistorySize == 2

\* the largest gyro reading and the largest heading of a pose, in quarter
\* turns, and the largest wheel position, in meters
MaxGyro == 1
MaxHeading == 1
MaxWheel == 1

\* the calls made on a DifferentialDriveOdometry in a run
MaxOdometryCalls == 3

\* the time at which the PoseEstimator is built, in seconds, and the calls
\* that change it in a run
EstimatorStart == 1
MaxEstimatorCalls == 2

\* pose graph: calls in a run, the greatest node index a loop closure
\* names, and the greatest max_iterations
MaxGraphCalls == 3
MaxNodeIndex == 2
MaxIterations == 2

\* the largest 12-bit distance field given to varbitscale_decode
MaxScaled == 4095

\* the sockets connected to the web server, and the largest float of an
\* event
SocketCount == 2
MaxSpeed == 1

\* paths: the waypoints of a path and their largest x coordinate
MaxWaypoints == 3
MaxCoord == 2

\* inverses: the largest coordinate of a transform, in half meters, and
\* its largest angle, in quarter turns
MaxHalves == 2
MaxQuarters == 2

\* scan matching: the greatest number of iterations asked of
\* icp_least_squares, and the greatest coordinate of a scan point
MaxIcpIterations == 2
MaxPointCoord == 2

(***************************************************************************)
(* Program constants.                                                      *)
(***************************************************************************)
TelemetryLen == 12

\* the retention of the pose estimator's odometry buffer, in seconds
BUFFER_SIZE == 2

FrameLen == 132
DescriptorLen == 7
SyncByte == 165
MinScanPoints == 10
CabinCount == 32
AngleModulus == 360 * 64

(***************************************************************************)
(* Rust's &, | and ^ on unsigned integers.                                 *)
(***************************************************************************)
RECURSIVE BitAnd(_, _)
BitAnd(a, b) ==
    IF a = 0 \/ b = 0 THEN 0
    ELSE (a % 2) * (b % 2) + 2 * BitAnd(a \div 2, b \div 2)

RECURSIVE BitOr(_, _)
BitOr(a, b) ==
    IF a = 0 THEN b ELSE IF b = 0 THEN a
    ELSE (IF a % 2 = 1 \/ b % 2 = 1 THEN 1 ELSE 0) + 2 * BitOr(a \div 2, b \div 2)

RECURSIVE BitXor(_, _)
BitXor(a, b) ==
    IF a = 0 THEN b ELSE IF b = 0 THEN a
    ELSE ((a + b) % 2) + 2 * BitXor(a \div 2, b \div 2)

\* check_checksum ^= bytes[i] for the bytes from..to (1-based), the range
\* split in halves to keep the evaluation shallow
RECURSIVE XorBytes(_, _, _)
XorBytes(bytes, from, to) ==
    IF from > to THEN 0
    ELSE IF from = to THEN bytes[from]
    ELSE LET mid == (from + to) \div 2
         IN  BitXor(XorBytes(bytes, from, mid), XorBytes(bytes, mid + 1, to))

(***************************************************************************)
(* ScanPacket::from_buffer.  bytes is 1-based: bytes[1] is b0.             *)
(***************************************************************************)
SyncOf(bytes) == BitOr(BitAnd(bytes[1], 240), bytes[2] \div 16)

\* (bytes[0] & 0xF) | (bytes[1] << 4), the shift wrapping in 8 bits
ChecksumOf(bytes) == BitOr(BitAnd(bytes[1], 15), (bytes[2] * 16) % 256)

ParseCabin(bytes, i) ==
    LET off == 4 + 4 * i
    IN  [lo |-> bytes[off + 1] + 256 * bytes[off + 2],
         hi |-> bytes[off + 3] + 256 * bytes[off + 4]]

\* the two tests in the other order
from_buffer_checksum_first(bytes) ==
    IF XorBytes(bytes, 3, Len(bytes)) # ChecksumOf(bytes)
    THEN [err |-> "ChecksumMismatch"]
    ELSE IF SyncOf(bytes) # SyncByte
    THEN [err |-> "SyncByteMismatch"]
    ELSE [err |-> "Ok",
          start_bit |-> BitAnd(bytes[4], 128) # 0,
          start_angle_q6 |-> bytes[3] + 256 * BitAnd(bytes[4], 127),
          ultra_cabins |-> [i \in 1..CabinCount |-> ParseCabin(bytes, i - 1)]]

from_buffer(bytes) ==
    IF SyncOf(bytes) # SyncByte
    THEN [err |-> "SyncByteMismatch"]
    ELSE IF XorBytes(bytes, 3, Len(bytes)) # ChecksumOf(bytes)
    THEN [err |-> "ChecksumMismatch"]
    ELSE [err |-> "Ok",
          start_bit |-> BitAnd(bytes[4], 128) # 0,
          start_angle_q6 |-> bytes[3] + 256 * BitAnd(bytes[4], 127),
          ultra_cabins |-> [i \in 1..CabinCount |-> ParseCabin(bytes, i - 1)]]

(***************************************************************************)
(* varbitscale_decode: [value, level, overflow]; scale_level is 0 on entry *)
(* at both call sites and is left alone when no row matches.  scaled is    *)
(* below 2^31, so that scaled as i32 is scaled.  The u32 arithmetic is     *)
(* done in units of 2^level, which the target base is a multiple of, to    *)
(* stay within the model checker's integers; value is the u32 the          *)
(* wrapping sum gives, and overflow says that the sum did wrap, where a    *)
(* build with overflow checks panics.                                      *)
(***************************************************************************)
VBS_SCALED_BASE == <<3328, 1792, 1280, 512, 0>>
VBS_SCALED_LVL == <<4, 3, 2, 1, 0>>
VBS_TARGET_BASE == <<16384, 4096, 2048, 512, 0>>

Pow2(n) == CASE n = 0 -> 1 [] n = 1 -> 2 [] n = 2 -> 4 [] n = 3 -> 8 [] n = 4 -> 16

\* the part of x, 0 <= x < 2^31, that 32 bits keep of x << level: x modulo
\* 2^(32 - level)
KeptBits(x, level) ==
    CASE level = 4 -> x % 268435456
      [] level = 3 -> x % 536870912
      [] level = 2 -> x % 1073741824
      [] OTHER -> x

RECURSIVE VbsRow(_, _)
VbsRow(scaled, i) ==
    IF i > Len(VBS_SCALED_BASE)
    THEN [value |-> 0, level |-> 0, overflow |-> FALSE]
    ELSE LET remain == scaled - VBS_SCALED_BASE[i]
             level == VBS_SCALED_LVL[i]
             shifted == KeptBits(remain, level)
             sum == VBS_TARGET_BASE[i] \div Pow2(level) + shifted
         IN  IF remain >= 0
             THEN [value |-> KeptBits(sum, level) * Pow2(level),
                   level |-> level,
                   overflow |-> KeptBits(sum, level) # sum]
             ELSE VbsRow(scaled, i + 1)

\* varbitscale_decode that skips the first row
varbitscale_decode_from_second_row(scaled) == VbsRow(scaled, 2)

varbitscale_decode(scaled) == VbsRow(scaled, 1)

(***************************************************************************)
(* The cabin decoding of LidarEngine::poll.                                *)
(***************************************************************************)
\* a 10-bit field read as a signed number (the arithmetic right shifts)
SignExtend10(v) == IF v >= 512 THEN v - 1024 ELSE v

\* combined_x3 & 0xFFF
DistMajor(w) == w.lo % 4096
\* ((combined_x3 as i32) << 10) >> 22 : bits 12..21, signed
DistPredict1(w) == SignExtend10((w.lo \div 4096) + 16 * (w.hi % 64))
\* (combined_x3 as i32) >> 22 : bits 22..31, signed
DistPredict2(w) == SignExtend10(w.hi \div 64)

\* ((base as i32 + (predict << level)) << 2) as u32 >> 2, or 0 for a sentinel
PredictedDistance(base, predict, level) ==
    IF predict = -512 \/ predict = 511 THEN 0
    ELSE (base + predict * Pow2(level)) % 1073741824

\* dist_q2[j] >> 2 for j = 0, 1, 2 of one cabin; major2 is the next cabin's
\* 12-bit distance field
CabinDistances(w, major2) ==
    LET m1 == varbitscale_decode(DistMajor(w))
        m2 == varbitscale_decode(major2)
        fill == m1.value = 0 /\ m2.value # 0
        base1 == IF fill THEN m2.value ELSE m1.value
        level1 == IF fill THEN m2.level ELSE m1.level
    IN  << m1.value,
           PredictedDistance(base1, DistPredict1(w), level1),
           PredictedDistance(m2.value, DistPredict2(w), m2.level) >>

\* (angle_diff_q6 as f64 * (i as f64 / 32.0 + j as f64 / 96.0)) as u16.
\* The floating-point product truncates to this quotient whenever
\* diff * (3i + j) is no positive multiple of 96 with j # 0, which holds of
\* every pair of start angles the device of this model sends (diff is 0 or
\* no multiple of 3).
AngleOffset(diff, i, j) == (diff * (3 * i + j)) \div 96

\* what the truncation of the floating-point product can give for any pair
\* of start angles: i / 32 and its product are exact, j / 96 is rounded, so
\* with j # 0 a product whose exact value is a whole number may come out
\* just below it
AngleOffsets(diff, i, j) ==
    {AngleOffset(diff, i, j)}
        \cup IF j # 0 /\ diff # 0 /\ (diff * (3 * i + j)) % 96 = 0
             THEN {AngleOffset(diff, i, j) - 1} ELSE {}

\* the difference taken without rem_euclid
AngleDiffPlain(prev_angle, last_angle) == last_angle - prev_angle

\* angle_diff_q6: (last - prev).rem_euclid(360 * 64)
AngleDiffQ6(prev_angle, last_angle) == (last_angle - prev_angle) % AngleModulus

\* start_angle_q6 as u16 + offset: [sum, overflow], the sum as 16 bits keep it
AngleSum(start_angle, offset) ==
    [sum |-> (start_angle + offset) % 65536,
     overflow |-> start_angle + offset > 65535 \/ start_angle + offset < 0]

\* the point j of cabin i (0-based) of packet prev, decoded against packet last
CabinPoint(prev, last, i, j) ==
    LET w == prev.ultra_cabins[i + 1]
        major2 == IF i = 31 THEN DistMajor(last.ultra_cabins[1])
                  ELSE DistMajor(prev.ultra_cabins[i + 2])
        diff == AngleDiffQ6(prev.start_angle_q6, last.start_angle_q6)
    IN  [angle_q6 |-> (prev.start_angle_q6 + AngleOffset(diff, i, j)) % AngleModulus,
         distance_q0 |-> CabinDistances(w, major2)[j + 1],
         index |-> j]

(***************************************************************************)
(* LidarEngine::add_point.                                                 *)
(***************************************************************************)
\* a scan closed by an angle that does not grow
add_point_wrap_on_equal(scans, point) ==
    IF scans = << >> THEN << <<point>> >>
    ELSE LET current_scan == scans[Len(scans)]
             last_point == current_scan[Len(current_scan)]
         IN  IF last_point.angle_q6 >= point.angle_q6
             THEN Append(scans, <<point>>)
             ELSE [scans EXCEPT ![Len(scans)] = Append(current_scan, point)]

add_point(scans, point) ==
    LET pushed == IF scans = << >> THEN << << >> >> ELSE scans
        current_scan == pushed[Len(pushed)]
    IN  IF current_scan = << >>
        THEN [pushed EXCEPT ![Len(pushed)] = <<point>>]
        ELSE LET last_point == current_scan[Len(current_scan)]
             IN  IF last_point.angle_q6 > point.angle_q6
                 THEN Append(pushed, <<point>>)
                 ELSE [pushed EXCEPT ![Len(pushed)] = Append(current_scan, point)]

\* the points the loops over i in 0..32 and j in 0..3 pass to add_point, in
\* order (k = 3i + j, for k in from..to); zero distances are dropped
RECURSIVE EmittedFrom(_, _, _, _)
EmittedFrom(prev, last, from, to) ==
    IF from > to THEN << >>
    ELSE IF from = to
    THEN LET point == CabinPoint(prev, last, from \div 3, from % 3)
         IN  IF point.distance_q0 # 0 THEN <<point>> ELSE << >>
    ELSE LET mid == (from + to) \div 2
         IN  EmittedFrom(prev, last, from, mid) \o EmittedFrom(prev, last, mid + 1, to)

\* the loops decoding the packet that has just been framed
EmittedOfNewest(prev, last) == EmittedFrom(last, last, 0, 3 * CabinCount - 1)

Emitted(prev, last) == EmittedFrom(prev, last, 0, 3 * CabinCount - 1)

\* add_point applied to points[from..to] in order.  The scans after the first
\* half are bound in a one-element set, so that they are computed before
\* the second half is entered.
RECURSIVE AddPoints(_, _, _, _)
AddPoints(scans, points, from, to) ==
    IF from > to THEN scans
    ELSE IF from = to THEN add_point(scans, points[from])
    ELSE LET mid == (from + to) \div 2
         IN  CHOOSE result \in { AddPoints(half, points, mid + 1, to) :
                                   half \in {AddPoints(scans, points, from, mid)} } : TRUE

(***************************************************************************)
(* The device: the frames and response descriptors it puts on the wire.    *)
(***************************************************************************)
\* a cabin word from its 12-bit distance and its two 10-bit prediction fields
CabinWord(major, predict1, predict2) ==
    [lo |-> major + 4096 * (predict1 % 16),
     hi |-> (predict1 \div 16) + 64 * predict2]

\* one point (both predictions are the invalid sentinel 0x200)
WordSingle == CabinWord(1000, 512, 512)
\* no point at all
WordEmpty == CabinWord(0, 512, 512)
\* three points
WordTriple == CabinWord(1000, 1, 2)
\* one point, farther away: its distance field decodes at scale level 3
WordFar == CabinWord(2000, 512, 512)

\* the 130 bytes after the sync/checksum pair
FramePayload(angle, cabins) ==
    [k \in 1..(FrameLen - 2) |->
        IF k = 1 THEN angle % 256
        ELSE IF k = 2 THEN angle \div 256
        ELSE LET w == cabins[((k - 3) \div 4) + 1]
                 b == (k - 3) % 4
             IN  CASE b = 0 -> w.lo % 256
                   [] b = 1 -> w.lo \div 256
                   [] b = 2 -> w.hi % 256
                   [] b = 3 -> w.hi \div 256]

\* a frame whose sync nibbles are sync_hi, sync_lo and whose checksum is the
\* XOR of the payload, XORed with sum_error
Frame(angle, cabins, sync_hi, sync_lo, sum_error) ==
    LET payload == FramePayload(angle, cabins)
        sum == BitXor(XorBytes(payload, 1, Len(payload)), sum_error)
    IN  << 16 * sync_hi + (sum % 16), 16 * sync_lo + (sum \div 16) >> \o payload

\* the first n cabins hold word w, the others hold no point
Cabins(n, w) == [i \in 1..CabinCount |-> IF i <= n THEN w ELSE WordEmpty]

ValidFrame(angle, n, w) == Frame(angle, Cabins(n, w), 10, 5, 0)

\* Two start angles are equal or differ by no multiple of 3 (see AngleOffset).
\* Ten and eleven points that stay in one scan; 32 points that wrap when 5001
\* follows and share one angle when 10000 follows; 96 points; one point whose
\* distance field differs from the one of the other frames' first cabin.
ValidFrames ==
    { ValidFrame(15002, 10, WordSingle),
      ValidFrame(15002, 1, WordFar),
      ValidFrame(15002, 11, WordSingle),
      ValidFrame(10000, 32, WordSingle),
      ValidFrame(5001, 32, WordTriple) }

\* a wrong bit in the low and in the high nibble of the checksum; wrong sync
\* nibbles with a right checksum; wrong sync nibbles with a wrong checksum
BadSumFrame == Frame(10000, Cabins(10, WordSingle), 10, 5, 1)
BadSumHighFrame == Frame(10000, Cabins(10, WordSingle), 10, 5, 128)
BadSyncFrame == Frame(10000, Cabins(10, WordSingle), 11, 5, 0)
BadBothFrame == Frame(10000, Cabins(10, WordSingle), 10, 4, 1)

DeviceFrames ==
    ValidFrames \cup {BadSumFrame, BadSumHighFrame, BadSyncFrame, BadBothFrame}

\* LidarRequest::Stop and the express-scan request, as written to the port
StopRequest == <<165, 37>>
ExpressScanRequest == <<165, 130, 5, 3, 0, 0, 0, 0, 33>>

\* an attempt of init that clears the input before it sends STOP
InitSequenceClearFirst ==
    << [op |-> "clear"], [op |-> "write", bytes |-> StopRequest],
       [op |-> "write", bytes |-> ExpressScanRequest] >>

\* what an attempt of init does to the port before it waits for the
\* descriptor: STOP, clear the input buffer, the express-scan request
InitSequence ==
    << [op |-> "write", bytes |-> StopRequest], [op |-> "clear"],
       [op |-> "write", bytes |-> ExpressScanRequest] >>

ExpectedDescriptor == <<165, 90, 132, 0, 0, 64, 132>>
OtherDescriptor == <<165, 90, 132, 0, 0, 64, 133>>

(***************************************************************************)
(* The drivetrain's telemetry.  A frame is 12 bytes: the left and the      *)
(* right encoder clicks as little-endian i32 and the yaw as little-endian  *)
(* f32.  A float is kept as its sign, biased exponent and mantissa, which  *)
(* the widening to f64 leaves as they are; a wheel position is kept in     *)
(* units of XAVIERBOT_METERS_PER_ENCODER_CLICK.                            *)
(***************************************************************************)
\* the little-endian bytes of v, -2^31 <= v < 2^31, as the firmware sends them
i32_to_le_bytes(v) ==
    LET u == IF v >= 0 THEN v ELSE -(v + 1)
        b == << u % 256, (u \div 256) % 256, (u \div 65536) % 256,
                u \div 16777216 >>
    IN  IF v >= 0 THEN b ELSE [i \in 1..4 |-> 255 - b[i]]

\* the little-endian bytes of the float f
f32_to_le_bytes(f) ==
    << f.mantissa % 256, (f.mantissa \div 256) % 256,
       (f.exponent % 2) * 128 + (f.mantissa \div 65536),
       f.sign * 128 + (f.exponent \div 2) >>

\* the frame the firmware sends for these readings
TelemetryBytes(t) ==
    i32_to_le_bytes(t.left) \o i32_to_le_bytes(t.right)
        \o f32_to_le_bytes(t.yaw)

\* i32::from_le_bytes
i32_from_le_bytes(b) ==
    LET low == b[1] + 256 * b[2] + 65536 * b[3]
    IN  IF b[4] >= 128 THEN low + (b[4] - 256) * 16777216
                       ELSE low + b[4] * 16777216

\* f32::from_le_bytes
f32_from_le_bytes(b) ==
    [sign     |-> b[4] \div 128,
     exponent |-> (b[4] % 128) * 2 + (b[3] \div 128),
     mantissa |-> b[1] + 256 * b[2] + 65536 * (b[3] % 128)]

\* the unary minus of a float flips its sign bit
NegFloat(f) == [f EXCEPT !.sign = 1 - f.sign]

FloatZero == [sign |-> 0, exponent |-> 0, mantissa |-> 0]

WheelsZero == [left_wheel_meters |-> 0, right_wheel_meters |-> 0]

\* the body of the loop of update_inputs on the 12 bytes it has read
DecodeTelemetry(buf) ==
    [wheel_positions |->
         [left_wheel_meters  |-> i32_from_le_bytes(SubSeq(buf, 1, 4)),
          right_wheel_meters |-> -i32_from_le_bytes(SubSeq(buf, 5, 8))],
     heading |-> NegFloat(f32_from_le_bytes(SubSeq(buf, 9, 12)))]

\* update_inputs with an if in the place of its while: one read at most
update_inputs_reads_once(pending, inputs, limit) ==
    IF limit > 0 /\ Len(pending) >= TelemetryLen
    THEN [arduino_in |-> SubSeq(pending, TelemetryLen + 1, Len(pending)),
          inputs |-> DecodeTelemetry(SubSeq(pending, 1, TelemetryLen))]
    ELSE [arduino_in |-> pending, inputs |-> inputs]

\* update_inputs: while 12 bytes or more are pending, read 12 and decode
\* them into wheel_positions and heading.  limit is the number of reads
\* that succeed; the call returns Ok when the loop ends before it.
RECURSIVE update_inputs(_, _, _)
update_inputs(pending, inputs, limit) ==
    IF limit > 0 /\ Len(pending) >= TelemetryLen
    THEN update_inputs(SubSeq(pending, TelemetryLen + 1, Len(pending)),
                       DecodeTelemetry(SubSeq(pending, 1, TelemetryLen)),
                       limit - 1)
    ELSE [arduino_in |-> pending, inputs |-> inputs]

\* the readings the drivetrain reports in this model
TelemetryFrames ==
    { [left |-> 3, right |-> 5,
       yaw |-> [sign |-> 0, exponent |-> 127, mantissa |-> 0]],
      [left |-> -2, right |-> -1,
       yaw |-> [sign |-> 1, exponent |-> 128, mantissa |-> 2097152]],
      [left |-> 256, right |-> 0, yaw |-> FloatZero] }

(***************************************************************************)
(* Numbers.  An f64 is modelled by the rational it stands for, as a        *)
(* fraction in lowest terms with a positive denominator; the rounding of   *)
(* floating-point arithmetic is not modelled.  A Duration is a whole       *)
(* number of seconds.                                                      *)
(***************************************************************************)
Abs(x) == IF x < 0 THEN -x ELSE x

RECURSIVE Gcd(_, _)
Gcd(a, b) == IF b = 0 THEN a ELSE Gcd(b, a % b)

\* the fraction n/d, d # 0
Rat(n, d) ==
    LET g == Gcd(Abs(n), Abs(d))
        sign == IF d < 0 THEN -1 ELSE 1
    IN  [num |-> (sign * n) \div g, den |-> (sign * d) \div g]

RatAdd(a, b) == Rat(a.num * b.den + b.num * a.den, a.den * b.den)

RatSub(a, b) == Rat(a.num * b.den - b.num * a.den, a.den * b.den)

RatMul(a, b) == Rat(a.num * b.num, a.den * b.den)

RatNeg(a) == [num |-> -a.num, den |-> a.den]

RatZero == [num |-> 0, den |-> 1]

(***************************************************************************)
(* Transform2d and Twist2d.  An angle is a whole number of quarter turns   *)
(* (pi/2 radians), for which cos and sin are -1, 0 or 1; the coordinates   *)
(* are rationals.  The conversions between a transform and a twist are     *)
(* given where they stay rational: for no rotation, and for no             *)
(* translation.                                                            *)
(***************************************************************************)
CosQuarter(q) == CASE q % 4 = 0 -> 1 [] q % 4 = 2 -> -1 [] OTHER -> 0

SinQuarter(q) == CASE q % 4 = 1 -> 1 [] q % 4 = 3 -> -1 [] OTHER -> 0

\* Transform2d::new
Transform2d(x, y, theta) ==
    [x_meters |-> x, y_meters |-> y, theta_radians |-> theta]

\* Transform2d::ZERO
TransformZero == Transform2d(RatZero, RatZero, 0)

\* a transform with whole coordinates
Pose(x, y, theta) == Transform2d(Rat(x, 1), Rat(y, 1), theta)

\* Add for Transform2d: rhs, rotated by the angle of self, after self
TransformAdd(lhs, rhs) ==
    LET c == Rat(CosQuarter(lhs.theta_radians), 1)
        sn == Rat(SinQuarter(lhs.theta_radians), 1)
        x == RatSub(RatMul(rhs.x_meters, c), RatMul(rhs.y_meters, sn))
        y == RatAdd(RatMul(rhs.x_meters, sn), RatMul(rhs.y_meters, c))
    IN  Transform2d(RatAdd(lhs.x_meters, x), RatAdd(lhs.y_meters, y),
                    lhs.theta_radians + rhs.theta_radians)

\* PartialEq for Transform2d: each field differs by less than 1e-9.  A
\* difference n/d of coordinates is below 1e-9 iff |n| is below d / 10^9; a
\* difference of whole quarter turns is below 1e-9 radians iff it is zero.
TransformEq(self, other) ==
    LET Close(a, b) ==
            LET diff == RatSub(a, b)
            IN  Abs(diff.num) < (diff.den + 999999999) \div 1000000000
    IN  /\ Close(self.x_meters, other.x_meters)
        /\ Close(self.y_meters, other.y_meters)
        /\ self.theta_radians = other.theta_radians

\* Neg that negates field by field
TransformNegFieldwise(tf) ==
    Transform2d(RatNeg(tf.x_meters), RatNeg(tf.y_meters), -tf.theta_radians)

\* Neg for Transform2d
TransformNeg(tf) ==
    TransformAdd(Transform2d(RatZero, RatZero, -tf.theta_radians),
                 Transform2d(RatNeg(tf.x_meters), RatNeg(tf.y_meters), 0))

\* Twist2d::new
Twist2d(dx, dy, dtheta) == [dx |-> dx, dy |-> dy, dtheta |-> dtheta]

\* From<Transform2d> for Twist2d.  With dtheta = 0: cos - 1 = 0, so
\* half_theta_by_tan_of_half_dtheta = 1, the rotation of the translation
\* part is atan2(-0, 1) = 0 and hypot = 1.  With no translation the
\* translation part is 0 whatever the rotation.
TwistFromTransform(tf) ==
    CASE tf.theta_radians = 0 ->
             Twist2d(tf.x_meters, tf.y_meters, 0)
      [] tf.x_meters = RatZero /\ tf.y_meters = RatZero ->
             Twist2d(RatZero, RatZero, tf.theta_radians)

\* From<Twist2d> for Transform2d.  With dtheta = 0: s = 1 and c = 0.  With
\* dx = dy = 0 the translation is 0 whatever s and c.
TransformFromTwist(twist) ==
    CASE twist.dtheta = 0 ->
             Transform2d(twist.dx, twist.dy, 0)
      [] twist.dx = RatZero /\ twist.dy = RatZero ->
             Transform2d(RatZero, RatZero, twist.dtheta)

\* Mul<f64> for Twist2d, for a twist without rotation
TwistMul(twist, rhs) ==
    CASE twist.dtheta = 0 ->
             Twist2d(RatMul(twist.dx, rhs), RatMul(twist.dy, rhs), 0)

\* Interpolate for Transform2d
InterpolateTransform2d(low, high, t) ==
    LET low_to_high == TransformAdd(TransformNeg(low), high)
        twist == TwistFromTransform(low_to_high)
        t_times_twist == TransformFromTwist(TwistMul(twist, t))
    IN  TransformAdd(low, t_times_twist)

(***************************************************************************)
(* DifferentialDriveOdometry.  Wheel positions are whole meters.           *)
(***************************************************************************)
\* DifferentialDriveOdometry::new
odometry_new(initial_gyro_angle, initial_wheel_positions) ==
    [pose |-> TransformZero,
     gyro_offset_radians |-> 0 - initial_gyro_angle,
     prev_angle_radians |-> 0,
     prev_wheel_positions |-> initial_wheel_positions]

\* update that leaves prev_angle_radians as it was
odometry_update_stale_angle(odom, gyro_angle_radians, wheel_positions) ==
    LET angle == gyro_angle_radians - odom.gyro_offset_radians
        l == wheel_positions.left_wheel_meters
                 - odom.prev_wheel_positions.left_wheel_meters
        r == wheel_positions.right_wheel_meters
                 - odom.prev_wheel_positions.right_wheel_meters
        twist == Twist2d(Rat(l + r, 2), RatZero,
                         angle - odom.prev_angle_radians)
    IN  [odom EXCEPT !.pose = TransformAdd(@, TransformFromTwist(twist)),
                     !.prev_wheel_positions = wheel_positions]

\* update: the twist of the wheels and of the gyro since the last update
odometry_update(odom, gyro_angle_radians, wheel_positions) ==
    LET angle == gyro_angle_radians - odom.gyro_offset_radians
        l == wheel_positions.left_wheel_meters
                 - odom.prev_wheel_positions.left_wheel_meters
        r == wheel_positions.right_wheel_meters
                 - odom.prev_wheel_positions.right_wheel_meters
        twist == Twist2d(Rat(l + r, 2), RatZero,
                         angle - odom.prev_angle_radians)
    IN  [odom EXCEPT !.pose = TransformAdd(@, TransformFromTwist(twist)),
                     !.prev_wheel_positions = wheel_positions,
                     !.prev_angle_radians = angle]

\* get_pose
odometry_get_pose(odom) == odom.pose

\* reset_pose
odometry_reset_pose(odom, gyro_angle_radians, wheel_positions, pose) ==
    [pose |-> pose,
     gyro_offset_radians |-> pose.theta_radians - gyro_angle_radians,
     prev_angle_radians |-> pose.theta_radians,
     prev_wheel_positions |-> wheel_positions]

\* the twist of an update is one TransformFromTwist is given for
UpdateIsRational(odom, gyro_angle_radians, wheel_positions) ==
    \/ (gyro_angle_radians - odom.gyro_offset_radians)
           = odom.prev_angle_radians
    \/ (wheel_positions.left_wheel_meters
            - odom.prev_wheel_positions.left_wheel_meters)
       + (wheel_positions.right_wheel_meters
            - odom.prev_wheel_positions.right_wheel_meters) = 0

(***************************************************************************)
(* TimeInterpolatableBuffer.  Its BTreeMap is the sequence of its entries  *)
(* [t, v] in the order of their keys, which is the order it iterates in.   *)
(***************************************************************************)
None == [some |-> FALSE]

Some(x) == [some |-> TRUE, value |-> x]

\* BTreeMap::insert: the entry of key k is replaced, or added in its place
BTreeInsert(map, k, value) ==
    LET Below(e) == e.t < k
        Above(e) == e.t > k
    IN  SelectSeq(map, Below) \o << [t |-> k, v |-> value] >>
            \o SelectSeq(map, Above)

\* clean_up: pop the first entry while it is older than history_size
RECURSIVE clean_up(_, _, _)
clean_up(buf, current_time, history_size) ==
    IF buf # << >> /\ current_time - buf[1].t > history_size
    THEN clean_up(Tail(buf), current_time, history_size)
    ELSE buf

\* add_sample that also refuses a sample at the newest timestamp
add_sample_strictly_later(buf, t, value, history_size) ==
    IF buf # << >> /\ t <= buf[Len(buf)].t
    THEN [outcome |-> "panic", buffer |-> buf]
    ELSE [outcome |-> "ok",
          buffer |-> BTreeInsert(clean_up(buf, t, history_size), t, value)]

\* add_sample that never cleans up
add_sample_without_clean_up(buf, t, value, history_size) ==
    IF buf # << >> /\ t < buf[Len(buf)].t
    THEN [outcome |-> "panic", buffer |-> buf]
    ELSE [outcome |-> "ok", buffer |-> BTreeInsert(buf, t, value)]

\* add_sample: panic if t is before the newest entry, else clean up
\* relative to t and insert
add_sample(buf, t, value, history_size) ==
    IF buf # << >> /\ t < buf[Len(buf)].t
    THEN [outcome |-> "panic", buffer |-> buf]
    ELSE [outcome |-> "ok",
          buffer |-> BTreeInsert(clean_up(buf, t, history_size), t, value)]

\* Interpolate for f64
InterpolateF64(low, high, t) == RatAdd(low, RatMul(RatSub(high, low), t))

\* T::interpolate, by the type of the values
Interpolate(low, high, t) ==
    IF "theta_radians" \in DOMAIN low
    THEN InterpolateTransform2d(low, high, t)
    ELSE InterpolateF64(low, high, t)

\* the loop of get_value: the index of the first entry from the i-th on
\* whose key is after time, or 0 if there is none
RECURSIVE FirstAfter(_, _, _)
FirstAfter(buf, i, time) ==
    IF i > Len(buf) THEN 0
    ELSE IF buf[i].t > time THEN i
    ELSE FirstAfter(buf, i + 1, time)

\* get_value that clamps to the nearer of the two adjacent samples
get_value_nearest(buf, time) ==
    IF buf = << >> THEN None
    ELSE IF buf[1].t > time THEN Some(buf[1].v)
    ELSE LET next == FirstAfter(buf, 2, time)
         IN  IF next = 0 THEN Some(buf[Len(buf)].v)
             ELSE Some(buf[next - 1].v)

\* get_value: None on an empty buffer, the first value before the first
\* key, the interpolation of the two entries around time, the last value
\* from the last key on
get_value(buf, time) ==
    IF buf = << >> THEN None
    ELSE IF buf[1].t > time THEN Some(buf[1].v)
    ELSE LET next == FirstAfter(buf, 2, time)
         IN  IF next = 0 THEN Some(buf[Len(buf)].v)
             ELSE Some(Interpolate(buf[next - 1].v, buf[next].v,
                                   Rat(time - buf[next - 1].t,
                                       buf[next].t - buf[next - 1].t)))


(***************************************************************************)
(* PoseEstimator: an odometry, the buffer of its poses and the map of the  *)
(* corrections world_to_odom, a BTreeMap kept like the buffer's.           *)
(***************************************************************************)
Ok(x) == [ok |-> TRUE, value |-> x]

Err == [ok |-> FALSE]

\* BTreeMap::range(Duration::ZERO..=timestamp).last()
RangeLast(map, timestamp) ==
    LET UpTo(e) == e.t <= timestamp
        upto == SelectSeq(map, UpTo)
    IN  IF upto = << >> THEN None ELSE Some(upto[Len(upto)])

\* sample_at that takes the newest correction whatever its timestamp
sample_at_newest_correction(est, timestamp) ==
    LET odom_at_time == get_value(est.odometry_buffer, timestamp)
        previous_world_to_odom ==
            IF est.world_to_odom = << >> THEN None
            ELSE Some(est.world_to_odom[Len(est.world_to_odom)])
    IN  IF ~odom_at_time.some THEN Err
        ELSE IF ~previous_world_to_odom.some THEN Err
        ELSE Ok(TransformAdd(previous_world_to_odom.value.v,
                             odom_at_time.value))

\* sample_at
sample_at(est, timestamp) ==
    LET odom_at_time == get_value(est.odometry_buffer, timestamp)
        previous_world_to_odom == RangeLast(est.world_to_odom, timestamp)
    IN  IF ~odom_at_time.some THEN Err
        ELSE IF ~previous_world_to_odom.some THEN Err
        ELSE Ok(TransformAdd(previous_world_to_odom.value.v,
                             odom_at_time.value))

\* reset_pose whose assertion lets an equal timestamp pass
estimator_reset_pose_accepts_equal(est, world_to_robot, t) ==
    LET odom_to_robot == odometry_get_pose(est.odometry)
        robot_to_odom == TransformNeg(odom_to_robot)
        t_world_to_odom == TransformAdd(world_to_robot, robot_to_odom)
    IN  IF /\ est.world_to_odom # << >>
           /\ ~(est.world_to_odom[Len(est.world_to_odom)].t <= t)
        THEN [outcome |-> "panic", estimator |-> est]
        ELSE [outcome |-> "ok",
              estimator |->
                  [est EXCEPT !.world_to_odom =
                                  BTreeInsert(@, t, t_world_to_odom)]]

\* PoseEstimator::reset_pose
estimator_reset_pose(est, world_to_robot, t) ==
    LET odom_to_robot == odometry_get_pose(est.odometry)
        robot_to_odom == TransformNeg(odom_to_robot)
        t_world_to_odom == TransformAdd(world_to_robot, robot_to_odom)
    IN  IF /\ est.world_to_odom # << >>
           /\ ~(est.world_to_odom[Len(est.world_to_odom)].t < t)
        THEN [outcome |-> "panic", estimator |-> est]
        ELSE [outcome |-> "ok",
              estimator |->
                  [est EXCEPT !.world_to_odom =
                                  BTreeInsert(@, t, t_world_to_odom)]]

\* PoseEstimator::new
estimator_new(world_to_robot, odom, t) ==
    estimator_reset_pose(
        [odometry |-> odom,
         odometry_buffer |->
             add_sample(<< >>, t, odometry_get_pose(odom),
                        BUFFER_SIZE).buffer,
         world_to_odom |-> << >>],
        world_to_robot, t).estimator

\* update_odometry
update_odometry(est, gyro_angle_radians, wheel_positions, t) ==
    LET odom == odometry_update(est.odometry, gyro_angle_radians,
                                wheel_positions)
        added == add_sample(est.odometry_buffer, t, odometry_get_pose(odom),
                            BUFFER_SIZE)
    IN  [outcome |-> added.outcome,
         estimator |-> [est EXCEPT !.odometry = odom,
                                   !.odometry_buffer = added.buffer]]

\* add_vision_measurement that takes the vision pose as it is when sample_at
\* fails
add_vision_measurement_unchecked(est, world_to_vision_pose, timestamp) ==
    LET world_to_estimated_pose == sample_at(est, timestamp)
        odom_to_robot == get_value(est.odometry_buffer, timestamp)
        world_to_robot ==
            IF world_to_estimated_pose.ok
            THEN InterpolateTransform2d(world_to_estimated_pose.value,
                                        world_to_vision_pose,
                                        Rat(1, 10))
            ELSE world_to_vision_pose
    IN  IF ~odom_to_robot.some
        THEN [result |-> Err, estimator |-> est]
        ELSE [result |-> Ok(TRUE),
              estimator |->
                  [est EXCEPT !.world_to_odom =
                      BTreeInsert(@, timestamp,
                          TransformAdd(world_to_robot,
                              TransformNeg(odom_to_robot.value)))]]

\* add_vision_measurement; the weight of the vision pose is 0.1
add_vision_measurement(est, world_to_vision_pose, timestamp) ==
    LET world_to_estimated_pose == sample_at(est, timestamp)
    IN  IF ~world_to_estimated_pose.ok
        THEN [result |-> Err, estimator |-> est]
        ELSE LET world_to_robot ==
                     InterpolateTransform2d(world_to_estimated_pose.value,
                                            world_to_vision_pose,
                                            Rat(1, 10))
                 odom_to_robot == get_value(est.odometry_buffer, timestamp)
             IN  IF ~odom_to_robot.some
                 THEN [result |-> Err, estimator |-> est]
                 ELSE [result |-> Ok(TRUE),
                       estimator |->
                           [est EXCEPT !.world_to_odom =
                               BTreeInsert(@, timestamp,
                                   TransformAdd(world_to_robot,
                                       TransformNeg(odom_to_robot.value)))]]

(***************************************************************************)
(* PoseGraphBackend.  nodes holds three floats per node; here it is the    *)
(* sequence of the nodes' transforms, so that nodes.len() / 3 is its       *)
(* length.  Node and edge indices count from 0 as in the code.  A float is *)
(* a rational or NaN, and a transform is NaN in all its fields or in none. *)
(***************************************************************************)
NaN == [num |-> 0, den |-> 0]

\* Transform2d::new(f64::NAN, f64::NAN, f64::NAN)
TransformNaN == [x_meters |-> NaN, y_meters |-> NaN, theta_radians |-> NaN]

IsNaN(tf) == tf.x_meters.den = 0

\* Add for Transform2d on floats: NaN in either operand reaches every field
\* of the sum through cos, sin and the products
FloatTransformAdd(lhs, rhs) ==
    IF IsNaN(lhs) \/ IsNaN(rhs) THEN TransformNaN
    ELSE TransformAdd(lhs, rhs)

\* PoseGraphBackend::new
pose_graph_new ==
    [nodes |-> << TransformZero >>, edges |-> << >>, dirty |-> FALSE]

\* add_node_with_odometry that takes the edge for the pose of the new node
add_node_with_odometry_uncomposed(g, prev_node_to_new) ==
    [g EXCEPT !.edges = Append(@, [i |-> Len(g.nodes) - 1,
                                   j |-> Len(g.nodes),
                                   i_to_j |-> prev_node_to_new]),
              !.nodes = Append(@, prev_node_to_new)]

\* add_node_with_odometry: an edge from the last node to the new one, and
\* the new node at the last node's pose composed with the edge
add_node_with_odometry(g, prev_node_to_new) ==
    LET world_to_prev == g.nodes[Len(g.nodes)]
        world_to_new == FloatTransformAdd(world_to_prev, prev_node_to_new)
    IN  [g EXCEPT !.edges = Append(@, [i |-> Len(g.nodes) - 1,
                                       j |-> Len(g.nodes),
                                       i_to_j |-> prev_node_to_new]),
                  !.nodes = Append(@, world_to_new)]

\* add_loop_closure
add_loop_closure(g, i, j, i_to_j) ==
    [g EXCEPT !.edges = Append(@, [i |-> i, j |-> j, i_to_j |-> i_to_j]),
              !.dirty = TRUE]

\* self.nodes.get(index * 3) of optimize is None
NodeMissing(g, index) == index >= Len(g.nodes)

\* the error function e_ij of optimize for an edge between two nodes that
\* exist, none of the values being NaN
EdgeError(g, edge) ==
    LET node_i == g.nodes[edge.i + 1]
        node_j == g.nodes[edge.j + 1]
        dx == RatSub(node_j.x_meters, node_i.x_meters)
        dy == RatSub(node_j.y_meters, node_i.y_meters)
        cos_i == Rat(CosQuarter(node_i.theta_radians), 1)
        sin_i == Rat(SinQuarter(node_i.theta_radians), 1)
        cos_ij == Rat(CosQuarter(edge.i_to_j.theta_radians), 1)
        sin_ij == Rat(SinQuarter(edge.i_to_j.theta_radians), 1)
        unrotated_x == RatSub(RatAdd(RatMul(cos_i, dx), RatMul(sin_i, dy)),
                              edge.i_to_j.x_meters)
        unrotated_y == RatSub(RatAdd(RatMul(RatNeg(sin_i), dx),
                                     RatMul(cos_i, dy)),
                              edge.i_to_j.y_meters)
    IN  << RatAdd(RatMul(cos_ij, unrotated_x), RatMul(sin_ij, unrotated_y)),
           RatAdd(RatMul(RatNeg(sin_ij), unrotated_x),
                  RatMul(cos_ij, unrotated_y)),
           node_j.theta_radians - node_i.theta_radians
               - edge.i_to_j.theta_radians >>

\* some edge of the graph names a node that nodes does not hold
HasMissingNode(g) ==
    \E k \in 1..Len(g.edges) :
       NodeMissing(g, g.edges[k].i) \/ NodeMissing(g, g.edges[k].j)

\* some float the linear system is built from is NaN
HasNaN(g) ==
    \/ \E k \in 1..Len(g.nodes) : IsNaN(g.nodes[k])
    \/ \E k \in 1..Len(g.edges) : IsNaN(g.edges[k].i_to_j)

\* every edge agrees with the two nodes it joins, so that b is zero
ErrorsAreZero(g) ==
    \A k \in 1..Len(g.edges) :
       EdgeError(g, g.edges[k]) = << RatZero, RatZero, 0 >>

\* optimize is given for the graphs whose result stays rational: without
\* an iteration, with a panic in the first iteration, and with b = 0
OptimizeIsRational(g, max_iterations) ==
    IF max_iterations = 0 \/ HasMissingNode(g) \/ HasNaN(g) THEN TRUE
    ELSE ErrorsAreZero(g)

\* optimize that clears dirty at the end of an iteration
optimize_clears_in_loop(g, max_iterations) ==
    IF max_iterations = 0 THEN [outcome |-> "ok", graph |-> g]
    ELSE IF HasMissingNode(g)
    THEN [outcome |-> "panic", cause |-> "node", graph |-> g]
    ELSE IF HasNaN(g)
    THEN [outcome |-> "panic", cause |-> "factor", graph |-> g]
    ELSE [outcome |-> "ok", graph |-> [g EXCEPT !.dirty = FALSE]]

\* optimize.  Each iteration reads the two nodes of every edge with
\* get(..).unwrap(), which panics for a node that does not exist; it then
\* factors H, which has the identity added to its first block, with
\* CscCholesky::factor(..).unwrap().  The factorisation fails on a pivot
\* that is not greater than zero, which is what a NaN pivot is; of finite
\* values H is positive definite, because every node is tied to node 0 by
\* the chain of odometry edges.  With b = 0 the solution delta_x is zero,
\* nodes is unchanged and the loop breaks.  dirty is cleared after the loop.
optimize(g, max_iterations) ==
    IF max_iterations = 0
    THEN [outcome |-> "ok", graph |-> [g EXCEPT !.dirty = FALSE]]
    ELSE IF HasMissingNode(g)
    THEN [outcome |-> "panic", cause |-> "node", graph |-> g]
    ELSE IF HasNaN(g)
    THEN [outcome |-> "panic", cause |-> "factor", graph |-> g]
    ELSE [outcome |-> "ok", graph |-> [g EXCEPT !.dirty = FALSE]]

(***************************************************************************)
(* The DriveCommand shared through WebsocketState and the two event        *)
(* handlers that write it.  The floats of an event are whole numbers, the  *)
(* rotation in quarter turns.                                              *)
(***************************************************************************)
\* DriveCommand::TeleopVelocity
TeleopVelocity(twist) == [command |-> "TeleopVelocity", twist |-> twist]

\* DriveCommand::PathfindToPosition
PathfindToPosition(tf) == [command |-> "PathfindToPosition", target |-> tf]

\* Twist2d::ZERO
TwistZero == Twist2d(RatZero, RatZero, 0)

\* WebsocketState::new
websocket_state_new == TeleopVelocity(TwistZero)

\* data[k] panics in the driveWithSpeeds handler
DataTooShort(data) == Len(data) < 3

\* the value of the driveWithSpeeds handler with dx and dy exchanged
drive_with_speeds_swapped(data) ==
    TeleopVelocity(Twist2d(Rat(data[2], 1), Rat(data[1], 1), data[3]))

\* the value the driveWithSpeeds handler assigns
drive_with_speeds(data) ==
    TeleopVelocity(Twist2d(Rat(data[1], 1), Rat(data[2], 1), data[3]))

\* the value the pathfindToPosition handler assigns
pathfind_to_position(data) == PathfindToPosition(data)

(***************************************************************************)
(* Path.  A waypoint index counts from 0.  The distance of                 *)
(* project_tf_onto_line_segment is kept as its square, of which hypot is   *)
(* an increasing function, so that the comparisons of get_path_progress    *)
(* are the same.                                                           *)
(***************************************************************************)
RatDiv(a, b) == Rat(a.num * b.den, a.den * b.num)

RatLess(a, b) == a.num * b.den < b.num * a.den

\* f64::max and f64::min
RatMax(a, b) == IF RatLess(a, b) THEN b ELSE a

RatMin(a, b) == IF RatLess(b, a) THEN b ELSE a

RatOne == [num |-> 1, den |-> 1]

\* f64::INFINITY
Infinity == [num |-> 1, den |-> 0]

\* project_tf_onto_line_segment without the upper clamp of t
project_without_upper_clamp(waypoints, tf, index) ==
    LET waypoint_1 == waypoints[index + 1]
        waypoint_2 == waypoints[index + 2]
        dx == RatSub(waypoint_2.x_meters, waypoint_1.x_meters)
        dy == RatSub(waypoint_2.y_meters, waypoint_1.y_meters)
        dx1 == RatSub(tf.x_meters, waypoint_1.x_meters)
        dy1 == RatSub(tf.y_meters, waypoint_1.y_meters)
        t == IF dx = RatZero /\ dy = RatZero THEN RatZero
             ELSE RatMax(RatDiv(RatAdd(RatMul(dx, dx1), RatMul(dy, dy1)),
                                RatAdd(RatMul(dx, dx), RatMul(dy, dy))),
                         RatZero)
        px == RatAdd(waypoint_1.x_meters, RatMul(dx, t))
        py == RatAdd(waypoint_1.y_meters, RatMul(dy, t))
        ex == RatSub(tf.x_meters, px)
        ey == RatSub(tf.y_meters, py)
    IN  [t |-> t, dist |-> RatAdd(RatMul(ex, ex), RatMul(ey, ey))]

\* project_tf_onto_line_segment: (t, dist) of the point of the segment
\* from waypoint index to waypoint index + 1 that is closest to tf
project_tf_onto_line_segment(waypoints, tf, index) ==
    LET waypoint_1 == waypoints[index + 1]
        waypoint_2 == waypoints[index + 2]
        dx == RatSub(waypoint_2.x_meters, waypoint_1.x_meters)
        dy == RatSub(waypoint_2.y_meters, waypoint_1.y_meters)
        dx1 == RatSub(tf.x_meters, waypoint_1.x_meters)
        dy1 == RatSub(tf.y_meters, waypoint_1.y_meters)
        t == IF dx = RatZero /\ dy = RatZero THEN RatZero
             ELSE RatMin(RatMax(RatDiv(RatAdd(RatMul(dx, dx1),
                                              RatMul(dy, dy1)),
                                       RatAdd(RatMul(dx, dx),
                                              RatMul(dy, dy))),
                                RatZero),
                         RatOne)
        px == RatAdd(waypoint_1.x_meters, RatMul(dx, t))
        py == RatAdd(waypoint_1.y_meters, RatMul(dy, t))
        ex == RatSub(tf.x_meters, px)
        ey == RatSub(tf.y_meters, py)
    IN  [t |-> t, dist |-> RatAdd(RatMul(ex, ex), RatMul(ey, ey))]

\* the loop of get_path_progress from segment i on
RECURSIVE PathProgressLoop(_, _, _, _, _)
PathProgressLoop(waypoints, tf, i, min_dist, res) ==
    IF i >= Len(waypoints) - 1 THEN res
    ELSE LET p == project_tf_onto_line_segment(waypoints, tf, i)
         IN  IF RatLess(p.dist, min_dist)
             THEN PathProgressLoop(waypoints, tf, i + 1, p.dist,
                                   RatAdd(Rat(i, 1), p.t))
             ELSE PathProgressLoop(waypoints, tf, i + 1, min_dist, res)

\* get_path_progress: it asserts two waypoints or more, and a result other
\* than the sentinel -1
get_path_progress(waypoints, tf) ==
    IF Len(waypoints) < 2 THEN [outcome |-> "panic"]
    ELSE LET res == PathProgressLoop(waypoints, tf, 0, Infinity,
                                     Rat(-1, 1))
         IN  IF res = Rat(-1, 1) THEN [outcome |-> "panic"]
             ELSE [outcome |-> "ok", res |-> res]

(***************************************************************************)
(* XavierBotDrivetrain::write_outputs, up to the wheel speeds in meters    *)
(* per second that it converts to encoder clicks and writes.  A float is a *)
(* rational, NaN, or an infinity ([num |-> 1 or -1, den |-> 0]); the       *)
(* operations follow IEEE 754 on these, without rounding and without a     *)
(* sign of zero.                                                           *)
(***************************************************************************)
NegInfinity == [num |-> -1, den |-> 0]

IsFinite(a) == a.den # 0

Sign(k) == IF k < 0 THEN -1 ELSE IF k > 0 THEN 1 ELSE 0

FloatNeg(a) == [num |-> -a.num, den |-> a.den]

FloatAbs(a) == [num |-> Abs(a.num), den |-> a.den]

FloatAdd(a, b) ==
    IF a = NaN \/ b = NaN THEN NaN
    ELSE IF IsFinite(a) /\ IsFinite(b) THEN RatAdd(a, b)
    ELSE IF IsFinite(a) THEN b
    ELSE IF IsFinite(b) \/ a = b THEN a
    ELSE NaN

FloatSub(a, b) == FloatAdd(a, FloatNeg(b))

FloatMul(a, b) ==
    IF a = NaN \/ b = NaN THEN NaN
    ELSE IF IsFinite(a) /\ IsFinite(b) THEN RatMul(a, b)
    ELSE IF a.num = 0 \/ b.num = 0 THEN NaN
    ELSE [num |-> Sign(a.num) * Sign(b.num), den |-> 0]

FloatDiv(a, b) ==
    IF a = NaN \/ b = NaN THEN NaN
    ELSE IF IsFinite(a) /\ IsFinite(b)
    THEN IF b.num # 0 THEN RatDiv(a, b)
         ELSE IF a.num = 0 THEN NaN
         ELSE [num |-> Sign(a.num), den |-> 0]
    ELSE IF IsFinite(a) THEN RatZero
    ELSE IF IsFinite(b)
    THEN [num |-> Sign(a.num) * (IF b.num < 0 THEN -1 ELSE 1), den |-> 0]
    ELSE NaN

\* a < b: false when either is NaN
FloatLess(a, b) ==
    IF a = NaN \/ b = NaN THEN FALSE
    ELSE IF IsFinite(a) /\ IsFinite(b) THEN RatLess(a, b)
    ELSE IF IsFinite(a) THEN b = Infinity
    ELSE IF IsFinite(b) THEN a = NegInfinity
    ELSE a = NegInfinity /\ b = Infinity

\* f64::max: the other operand when one is NaN
FloatMax(a, b) ==
    IF a = NaN THEN b
    ELSE IF b = NaN THEN a
    ELSE IF FloatLess(a, b) THEN b ELSE a

XAVIERBOT_WHEEL_SEPARATION_METERS == Rat(1, 5)
XAVIERBOT_MAX_SPEED_FEASIBLE == Rat(1, 2)
\* the threshold below which a wheel speed is sent as zero, 0.02
WheelDeadband == Rat(1, 50)

\* the deadband applied before the desaturation
wheel_speeds_deadband_first(desired_chassis_speeds) ==
    LET half == FloatDiv(XAVIERBOT_WHEEL_SEPARATION_METERS, Rat(2, 1))
        turn == FloatMul(half, desired_chassis_speeds.dtheta)
        left == FloatSub(desired_chassis_speeds.dx, turn)
        right == FloatAdd(desired_chassis_speeds.dx, turn)
        left_cut == IF FloatLess(FloatAbs(left), WheelDeadband)
                    THEN RatZero ELSE left
        right_cut == IF FloatLess(FloatAbs(right), WheelDeadband)
                     THEN RatZero ELSE right
        norm == FloatDiv(FloatMax(FloatAbs(left_cut), FloatAbs(right_cut)),
                         XAVIERBOT_MAX_SPEED_FEASIBLE)
        saturated == FloatLess(RatOne, norm)
    IN  [left_mps |-> IF saturated THEN FloatDiv(left_cut, norm) ELSE left_cut,
         right_mps |-> IF saturated THEN FloatDiv(right_cut, norm)
                       ELSE right_cut,
         saturated |-> saturated, norm |-> norm,
         left_raw |-> left, right_raw |-> right]

\* left_mps and right_mps as write_outputs has them when it converts them,
\* with the speeds before the desaturation, norm, and whether norm > 1.0
wheel_speeds(desired_chassis_speeds) ==
    LET half == FloatDiv(XAVIERBOT_WHEEL_SEPARATION_METERS, Rat(2, 1))
        turn == FloatMul(half, desired_chassis_speeds.dtheta)
        left == FloatSub(desired_chassis_speeds.dx, turn)
        right == FloatAdd(desired_chassis_speeds.dx, turn)
        norm == FloatDiv(FloatMax(FloatAbs(left), FloatAbs(right)),
                         XAVIERBOT_MAX_SPEED_FEASIBLE)
        saturated == FloatLess(RatOne, norm)
        left_scaled == IF saturated THEN FloatDiv(left, norm) ELSE left
        right_scaled == IF saturated THEN FloatDiv(right, norm) ELSE right
    IN  [left_mps |-> IF FloatLess(FloatAbs(left_scaled), WheelDeadband)
                      THEN RatZero ELSE left_scaled,
         right_mps |-> IF FloatLess(FloatAbs(right_scaled), WheelDeadband)
                       THEN RatZero ELSE right_scaled,
         saturated |-> saturated, norm |-> norm,
         left_raw |-> left, right_raw |-> right]

(***************************************************************************)
(* icp_least_squares.  A point is a pair of whole coordinates, the         *)
(* estimate x is [x, y, theta] with whole coordinates and theta in quarter *)
(* turns, and distances are compared by their squares.  The solution dx    *)
(* of the least-squares system is not computed: an iteration takes it as   *)
(* a parameter, and the callers draw it from the steps that keep x on the  *)
(* grid.                                                                   *)
(***************************************************************************)
\* (p - q).norm(), squared
NormSquared(p_point, q_point) ==
    (p_point[1] - q_point[1]) * (p_point[1] - q_point[1])
        + (p_point[2] - q_point[2]) * (p_point[2] - q_point[2])

\* the inner loop of get_correspondence_indices from j on (0-based);
\* min_dist is -1 for f64::MAX
RECURSIVE ClosestFrom(_, _, _, _, _)
ClosestFrom(p_point, q, j, min_dist, min_index) ==
    IF j >= Len(q) THEN min_index
    ELSE LET dist == NormSquared(p_point, q[j + 1])
         IN  IF min_dist = -1 \/ dist < min_dist
             THEN ClosestFrom(p_point, q, j + 1, dist, j)
             ELSE ClosestFrom(p_point, q, j + 1, min_dist, min_index)

\* for every point of p the 0-based index of its nearest point of q
get_correspondence_indices(p, q) ==
    [i \in 1..Len(p) |-> ClosestFrom(p[i], q, 0, -1, 0)]

\* (rotation * point) + translation
TransformPoint(x, point) ==
    << CosQuarter(x.theta) * point[1] - SinQuarter(x.theta) * point[2] + x.x,
       SinQuarter(x.theta) * point[1] + CosQuarter(x.theta) * point[2] + x.y >>

\* the state of the loop when icp_least_squares enters it
icp_start(p, q, initial_guess, iterations) ==
    [p |-> p, q |-> q, x |-> initial_guess, p_copy |-> p,
     left |-> iterations, done |-> 0, outcome |-> "running"]

\* one iteration of the loop, dx being the solution of the system:
\* prepare_system indexes q with the correspondences, which panics on an
\* empty q; a zero dx breaks out of the loop
icp_iteration(s, dx) ==
    LET correspondences == get_correspondence_indices(s.p_copy, s.q)
        x == [x |-> s.x.x + dx.x, y |-> s.x.y + dx.y,
              theta |-> (s.x.theta + dx.theta) % 4]
        ran == [s EXCEPT !.done = s.done + 1, !.left = s.left - 1]
    IN  IF s.p # << >> /\ s.q = << >>
        THEN [ran EXCEPT !.outcome = "panic"]
        ELSE IF dx = [x |-> 0, y |-> 0, theta |-> 0]
        THEN [ran EXCEPT !.outcome = "returned"]
        ELSE [ran EXCEPT !.x = x,
                         !.p_copy = [i \in 1..Len(s.p) |->
                                        TransformPoint(x, s.p[i])],
                         !.outcome = IF s.left = 1 THEN "returned"
                                     ELSE "running"]

(***************************************************************************)
(* LidarPoseGraph::add_scan.                                               *)
(***************************************************************************)
\* the iterations add_scan asks of icp_least_squares
AddScanIterations == 50

\* the loop states icp_least_squares can end in from s, for the solutions
\* in steps; the model follows the loop for at most max_followed iterations
RECURSIVE IcpRuns(_, _, _)
IcpRuns(s, steps, max_followed) ==
    IF s.outcome # "running" \/ s.left = 0 \/ s.done >= max_followed
    THEN {s}
    ELSE UNION { IcpRuns(icp_iteration(s, dx), steps, max_followed) :
                    dx \in steps }

\* Transform2d::new(icp_result[0], icp_result[1], icp_result[2])
TransformOfEstimate(x) == Pose(x.x, x.y, x.theta)

\* the runs of icp_least_squares(&new_scan, &last_scan, odometry, 50) in
\* add_scan, last_scan being the most recently stored scan
add_scan_runs(scans, odom_prev_node_to_new, new_scan, steps, max_followed) ==
    IcpRuns(icp_start(new_scan, scans[Len(scans)], odom_prev_node_to_new,
                      AddScanIterations),
            steps, max_followed)

\* add_scan, run being the loop state icp_least_squares ended in when there
\* is a scan to match against: a panic of icp_least_squares leaves the graph
\* as it was
add_scan(backend, scans, odom_prev_node_to_new, new_scan, run) ==
    IF scans # << >>
    THEN IF run.outcome = "panic"
         THEN [outcome |-> "panic", backend |-> backend, node_scans |-> scans]
         ELSE [outcome |-> "ok",
               backend |-> add_node_with_odometry(backend,
                                                  TransformOfEstimate(run.x)),
               node_scans |-> Append(scans, new_scan)]
    ELSE [outcome |-> "ok",
          backend |-> add_node_with_odometry(
                          backend, TransformOfEstimate(odom_prev_node_to_new)),
          node_scans |-> Append(scans, new_scan)]

(***************************************************************************)
(* State.                                                                  *)
(***************************************************************************)
VARIABLES
    lidar_pc,         \* where the lidar task is: "new", "init_send",
                      \* "init_wait", "poll", or "panicked" (the task is gone)
    port_in,          \* the bytes waiting in the lidar port's input buffer
    port_out,         \* what init did to the port in its last attempt: the
                      \* writes and the clear, in their order
    scan_packets,     \* LidarEngine.scan_packets
    scans,            \* LidarEngine.scans
    lidar_status,     \* the shared LidarStatus
    scan_queue,       \* the scans sent on tx and not yet received
    rx_alive,         \* the Receiver<LidarScan> has not been dropped
    poll_result,      \* the last poll: what from_buffer said, the bytes poll
                      \* consumed, the index into scans of the scan it
                      \* returned (0: none), and whether the task sent it
    returned,         \* the indices poll returned since the engine was built
    points_log,       \* the points passed to add_point since then
    init_mismatches,  \* consecutive mismatching descriptors in this init
    frames_left,      \* frames the device may still emit
    mismatches_left,  \* mismatching descriptors the device may still send
    drive_pc,         \* where the drivetrain task is: "new", "align",
                      \* "inputs", "publish_heading", "publish_wheels",
                      \* "outputs", or "panicked" (the task is gone)
    drive_status,     \* the shared DrivetrainStatus
    arduino_in,       \* the bytes waiting in the drivetrain port's input buffer
    arduino_out,      \* the bytes of a telemetry frame still on their way
    heading,          \* XavierBotDrivetrain.heading
    wheel_positions,  \* XavierBotDrivetrain.wheel_positions
    shared_heading,   \* the heading published to the rest of the program
    shared_wheels,    \* the wheel positions published likewise
    observed,         \* what a holder of the two handles read last
    telemetry_left,   \* telemetry frames the drivetrain may still emit
    buffer,           \* TimeInterpolatableBuffer<f64>.buffer
    buffer_call,      \* the last call on that buffer: its arguments, whether
                      \* it returned or panicked, and what it returned
    odometry,         \* a DifferentialDriveOdometry
    odometry_call,    \* the last call on it and the number of calls so far
    estimator,        \* a PoseEstimator: odometry, odometry_buffer and
                      \* world_to_odom
    estimator_call,   \* the last call on it: its arguments, whether it
                      \* returned or panicked, and what it returned
    graph,            \* a PoseGraphBackend: nodes, edges and dirty
    graph_call,       \* the last call on it, whether it returned or
                      \* panicked, and the number of calls so far
    node_scans,       \* LidarPoseGraph.node_scans, graph being its backend
    cmd_vel,          \* the DriveCommand behind WebsocketState.cmd_vel
    cmd_lock,         \* the socket whose handler holds the mutex (0: free)
    sockets,          \* per socket: where its event handler is, and the
                      \* command the event carries
    fn_call           \* a call of a function without state: its name, its
                      \* arguments and, once it has run, its result

vars == << lidar_pc, port_in, port_out, scan_packets, scans, lidar_status, scan_queue,
           rx_alive, poll_result, returned, points_log, init_mismatches,
           frames_left, mismatches_left, drive_pc, drive_status, arduino_in,
           arduino_out, heading, wheel_positions, shared_heading,
           shared_wheels, observed, telemetry_left, buffer, buffer_call, odometry,
           odometry_call, estimator, estimator_call,
           graph, graph_call, node_scans, cmd_vel, cmd_lock, sockets,
           fn_call >>

\* the state of the drivetrain task, which shares nothing with the lidar task
drive_vars == << drive_pc, drive_status, arduino_in, arduino_out, heading,
                 wheel_positions, shared_heading, shared_wheels, observed,
                 telemetry_left >>

lidar_vars == << lidar_pc, port_in, port_out, scan_packets, scans,
                 lidar_status,
                 scan_queue, rx_alive, poll_result, returned, points_log,
                 init_mismatches, frames_left, mismatches_left >>

\* a TimeInterpolatableBuffer<f64> and the calls made on it
buffer_vars == << buffer, buffer_call >>

\* a DifferentialDriveOdometry and the calls made on it
odometry_vars == << odometry, odometry_call >>

\* a PoseEstimator and the calls made on it
estimator_vars == << estimator, estimator_call >>

\* a PoseGraphBackend and the calls made on it
graph_vars == << graph, graph_call, node_scans >>

\* the shared drive command and the socket handlers that write it
ws_vars == << cmd_vel, cmd_lock, sockets >>

\* what a call on the buffer, the odometry or the estimator leaves alone
\* besides the other two
rest_vars == << graph_vars, ws_vars, fn_call >>

\* the library objects, which the tasks do not touch
library_vars == << buffer_vars, odometry_vars, estimator_vars, rest_vars >>

\* what a step of the lidar task and its device leaves alone
non_lidar_vars == << drive_vars, library_vars >>

\* what a step of the drivetrain task and its device leaves alone
non_drive_vars == << lidar_vars, library_vars >>

\* what a call on a library object leaves alone
task_vars == << lidar_vars, drive_vars >>

\* what the environment may still do
budgets == << frames_left, mismatches_left >>

NoPoll == [parse |-> "none", consumed |-> 0, ret |-> 0, sent |-> FALSE]

\* start_drivetrain_thread up to the spawn of the task
DriveStart ==
    /\ drive_pc = "new"
    /\ drive_status = "Initializing"
    /\ arduino_in = << >>
    /\ arduino_out = << >>
    /\ heading = FloatZero
    /\ wheel_positions = WheelsZero
    /\ shared_heading = FloatZero
    /\ shared_wheels = WheelsZero
    /\ observed = [read |-> FALSE]

NoCall == [n |-> 0, op |-> "none"]

\* TimeInterpolatableBuffer::new
BufferNew ==
    /\ buffer = << >>
    /\ buffer_call = NoCall

\* no DifferentialDriveOdometry is built yet
OdometryNone ==
    /\ odometry = None
    /\ odometry_call = NoCall

\* no PoseEstimator is built yet
EstimatorNone ==
    /\ estimator = None
    /\ estimator_call = NoCall

\* no PoseGraphBackend is built yet
GraphNone ==
    /\ graph = None
    /\ graph_call = NoCall
    /\ node_scans = << >>

\* no WebsocketState is built yet
WsNone ==
    /\ cmd_vel = None
    /\ cmd_lock = 0
    /\ sockets = << >>

\* no function is being called
NoFn == fn_call = NoCall

\* no library object is in use
LibraryIdle ==
    /\ BufferNew
    /\ OdometryNone
    /\ EstimatorNone
    /\ GraphNone
    /\ WsNone
    /\ NoFn

\* start_lidar_thread up to the spawn of the task
TaskStart ==
    /\ LibraryIdle
    /\ lidar_pc = "new"
    /\ port_in = << >>
    /\ port_out = << >>
    /\ scan_packets = << >>
    /\ scans = << >>
    /\ lidar_status = "Initializing"
    /\ scan_queue = << >>
    /\ rx_alive = TRUE
    /\ poll_result = NoPoll
    /\ returned = << >>
    /\ points_log = << >>
    /\ init_mismatches = 0
    /\ DriveStart

\* the device streams frames after a handshake that succeeds at once
Init ==
    /\ TaskStart
    /\ frames_left = MaxFrames
    /\ mismatches_left = 0
    /\ telemetry_left = 0

\* the device may answer the handshake wrongly before it streams
InitHandshake ==
    /\ TaskStart
    /\ frames_left = MaxFramesShort
    /\ mismatches_left = MaxInitMismatch
    /\ telemetry_left = 0

\* both tasks start; the lidar streams a few frames
InitTasks ==
    /\ TaskStart
    /\ frames_left = MaxFramesShort
    /\ mismatches_left = 0
    /\ telemetry_left = 0

\* the drivetrain task and its device; the lidar task is not started
InitDrivetrain ==
    /\ TaskStart
    /\ frames_left = 0
    /\ mismatches_left = 0
    /\ telemetry_left = MaxTelemetry

\* the lidar task is not started and its device is silent
LidarIdle ==
    /\ lidar_pc = "new"
    /\ port_in = << >>
    /\ port_out = << >>
    /\ scan_packets = << >>
    /\ scans = << >>
    /\ lidar_status = "Initializing"
    /\ scan_queue = << >>
    /\ rx_alive = TRUE
    /\ poll_result = NoPoll
    /\ returned = << >>
    /\ points_log = << >>
    /\ init_mismatches = 0
    /\ frames_left = 0
    /\ mismatches_left = 0

\* an initialised engine with no scans yet, for calls of add_point alone
InitAddPoint ==
    /\ LibraryIdle
    /\ lidar_pc = "poll"
    /\ port_in = << >>
    /\ port_out = << >>
    /\ scan_packets = << >>
    /\ scans = << >>
    /\ lidar_status = "Initializing"
    /\ scan_queue = << >>
    /\ rx_alive = TRUE
    /\ poll_result = NoPoll
    /\ returned = << >>
    /\ points_log = << >>
    /\ init_mismatches = 0
    /\ DriveStart
    /\ telemetry_left = 0
    /\ frames_left = 0
    /\ mismatches_left = 0

(***************************************************************************)
(* The device and the consumer of the scan queue.                          *)
(***************************************************************************)
\* the device answers the express-scan request with a response descriptor
DeviceRespond ==
    /\ lidar_pc = "init_wait"
    /\ port_in = << >>
    /\ \/ /\ port_in' = ExpectedDescriptor
          /\ UNCHANGED mismatches_left
       \/ /\ mismatches_left > 0
          /\ port_in' = OtherDescriptor
          /\ mismatches_left' = mismatches_left - 1
    /\ UNCHANGED << lidar_pc, scan_packets, scans, lidar_status, scan_queue,
                    rx_alive, poll_result, returned, points_log,
                    init_mismatches, frames_left >>
    /\ UNCHANGED port_out
    /\ UNCHANGED non_lidar_vars

\* the device streams one more frame; the task polls at least as fast as the
\* device streams, so less than a frame waits when the next one arrives
DeviceSendFrame ==
    /\ lidar_pc = "poll"
    /\ frames_left > 0
    /\ Len(port_in) < FrameLen
    /\ \E f \in DeviceFrames : port_in' = port_in \o f
    /\ frames_left' = frames_left - 1
    /\ UNCHANGED << lidar_pc, scan_packets, scans, lidar_status, scan_queue,
                    rx_alive, poll_result, returned, points_log,
                    init_mismatches, mismatches_left >>
    /\ UNCHANGED port_out
    /\ UNCHANGED non_lidar_vars

\* a stray byte reaches the input buffer, so the next frame is misaligned
DeviceSendNoise ==
    /\ lidar_pc = "poll"
    /\ Len(port_in) < MaxNoise
    /\ port_in' = Append(port_in, 0)
    /\ UNCHANGED << lidar_pc, scan_packets, scans, lidar_status, scan_queue,
                    rx_alive, poll_result, returned, points_log,
                    init_mismatches, budgets >>
    /\ UNCHANGED port_out
    /\ UNCHANGED non_lidar_vars

\* the consumer takes the oldest scan off the queue (try_recv)
Receive ==
    /\ rx_alive
    /\ scan_queue # << >>
    /\ scan_queue' = Tail(scan_queue)
    /\ UNCHANGED << lidar_pc, port_in, scan_packets, scans, lidar_status,
                    rx_alive, poll_result, returned, points_log,
                    init_mismatches, budgets >>
    /\ UNCHANGED port_out
    /\ UNCHANGED non_lidar_vars

\* the consumer drops the receiver, and the queued scans with it
DropReceiver ==
    /\ rx_alive
    /\ rx_alive' = FALSE
    /\ scan_queue' = << >>
    /\ UNCHANGED << lidar_pc, port_in, scan_packets, scans, lidar_status,
                    poll_result, returned, points_log, init_mismatches,
                    budgets >>
    /\ UNCHANGED port_out
    /\ UNCHANGED non_lidar_vars

(***************************************************************************)
(* A panic unwinds the task: the engine (its port, scan_packets and scans) *)
(* is dropped and the task never runs again.                               *)
(***************************************************************************)
Panicked ==
    /\ lidar_pc' = "panicked"
    /\ port_in' = << >>
    /\ port_out' = << >>
    /\ scan_packets' = << >>
    /\ scans' = << >>
    /\ returned' = << >>
    /\ points_log' = << >>

(***************************************************************************)
(* LidarEngine::new and LidarEngine::init.                                 *)
(***************************************************************************)
\* the port is found and opened: a fresh engine, and init starts
LidarNew ==
    /\ lidar_pc = "new"
    /\ lidar_pc' = "init_send"
    /\ port_out' = << >>
    /\ scan_packets' = << >>
    /\ scans' = << >>
    /\ poll_result' = NoPoll
    /\ returned' = << >>
    /\ points_log' = << >>
    /\ init_mismatches' = 0
    /\ UNCHANGED << port_in, lidar_status, scan_queue, rx_alive, budgets >>
    /\ UNCHANGED non_lidar_vars

\* no matching port, or the open fails: sleep and try again
LidarNewOpenFail ==
    /\ lidar_pc = "new"
    /\ UNCHANGED vars

\* available_ports() fails: unwrap panics
LidarNewPanic ==
    /\ lidar_pc = "new"
    /\ Panicked
    /\ UNCHANGED << lidar_status, scan_queue, rx_alive, poll_result,
                    init_mismatches, budgets >>
    /\ UNCHANGED non_lidar_vars

\* STOP, clear the input buffer, express-scan start
LidarInitSend ==
    /\ lidar_pc = "init_send"
    /\ port_in' = << >>
    /\ port_out' = InitSequence
    /\ lidar_pc' = "init_wait"
    /\ UNCHANGED << scan_packets, scans, lidar_status, scan_queue, rx_alive,
                    poll_result, returned, points_log, init_mismatches,
                    budgets >>
    /\ UNCHANGED non_lidar_vars

\* a write, the clear, a bytes_to_read or the read of init fails: unwrap panics
LidarInitPanic ==
    /\ lidar_pc \in {"init_send", "init_wait"}
    /\ Panicked
    /\ UNCHANGED << lidar_status, scan_queue, rx_alive, poll_result,
                    init_mismatches, budgets >>
    /\ UNCHANGED non_lidar_vars

\* fewer than 7 bytes after 500 ms: continue 'outer
LidarInitTimeout ==
    /\ lidar_pc = "init_wait"
    /\ Len(port_in) < DescriptorLen
    /\ lidar_pc' = "init_send"
    /\ UNCHANGED << port_in, scan_packets, scans, lidar_status, scan_queue,
                    rx_alive, poll_result, returned, points_log,
                    init_mismatches, budgets >>
    /\ UNCHANGED port_out
    /\ UNCHANGED non_lidar_vars

\* a loop that gives up after five retries
InitRetriesUpTo5(mismatches) == mismatches <= 5

\* 'outer is a plain loop: a mismatch is retried whatever their number
InitRetries(mismatches) == TRUE

\* read the 7-byte descriptor and compare it
LidarInitRead ==
    /\ lidar_pc = "init_wait"
    /\ Len(port_in) >= DescriptorLen
    /\ port_in' = SubSeq(port_in, DescriptorLen + 1, Len(port_in))
    /\ IF SubSeq(port_in, 1, DescriptorLen) = ExpectedDescriptor
       THEN /\ lidar_pc' = "poll"
            /\ UNCHANGED init_mismatches
       ELSE /\ init_mismatches' = init_mismatches + 1
            /\ lidar_pc' = IF InitRetries(init_mismatches + 1)
                           THEN "init_send" ELSE "init_gave_up"
    /\ UNCHANGED << scan_packets, scans, lidar_status, scan_queue, rx_alive,
                    poll_result, returned, points_log, budgets >>
    /\ UNCHANGED port_out
    /\ UNCHANGED non_lidar_vars

(***************************************************************************)
(* One iteration of the task's loop: LidarEngine::poll and the match on    *)
(* its result in start_lidar_thread.                                       *)
(***************************************************************************)
\* the last scan in place of the last but one
PollReturnsLast(scan_count, scans_now) ==
    IF Len(scans_now) >= 2 /\ scan_count # Len(scans_now)
    THEN Len(scans_now) ELSE 0

\* the scan poll returns: scans[len - 2] when a scan was added, as a 1-based
\* index (0: None)
PollReturn(scan_count, scans_now) ==
    IF Len(scans_now) >= 2 /\ scan_count # Len(scans_now)
    THEN Len(scans_now) - 1 ELSE 0

\* the threshold taken as a minimum
ScanIsSentFrom10(scan) == Len(scan) >= MinScanPoints

\* scan.points.len() > 10
ScanIsSent(scan) == Len(scan) > MinScanPoints

\* bytes_to_read() fails: Err, the task marks the status and rebuilds the engine
LidarPollIoError ==
    /\ lidar_pc = "poll"
    /\ lidar_status' = "UnknownError"
    /\ lidar_pc' = "new"
    /\ poll_result' = NoPoll
    /\ UNCHANGED << port_in, scan_packets, scans, scan_queue, rx_alive,
                    returned, points_log, init_mismatches, budgets >>
    /\ UNCHANGED port_out
    /\ UNCHANGED non_lidar_vars

\* fewer than 132 bytes wait: Ok(None)
LidarPollNone ==
    /\ lidar_pc = "poll"
    /\ Len(port_in) < FrameLen
    /\ poll_result' = NoPoll
    /\ UNCHANGED << lidar_pc, port_in, scan_packets, scans, lidar_status,
                    scan_queue, rx_alive, returned, points_log,
                    init_mismatches, budgets >>
    /\ UNCHANGED port_out
    /\ UNCHANGED non_lidar_vars

\* read_exact of the frame fails: unwrap panics
LidarPollReadPanic ==
    /\ lidar_pc = "poll"
    /\ Len(port_in) >= FrameLen
    /\ Panicked
    /\ poll_result' = NoPoll
    /\ UNCHANGED << lidar_status, scan_queue, rx_alive, init_mismatches,
                    budgets >>
    /\ UNCHANGED non_lidar_vars

\* a frame is read and from_buffer accepts it
LidarPollPacket ==
    /\ lidar_pc = "poll"
    /\ Len(port_in) >= FrameLen
    /\ \E parsed \in {from_buffer(SubSeq(port_in, 1, FrameLen))} :
       /\ parsed.err = "Ok"
       /\ \E packets \in {Append(scan_packets,
                                 [start_bit |-> parsed.start_bit,
                                  start_angle_q6 |-> parsed.start_angle_q6,
                                  ultra_cabins |-> parsed.ultra_cabins])} :
          \E emitted \in {IF Len(packets) > 1
                          THEN Emitted(packets[Len(packets) - 1],
                                       packets[Len(packets)])
                          ELSE << >>} :
          \E decoded \in {AddPoints(scans, emitted, 1, Len(emitted))} :
          \E ret \in {PollReturn(Len(scans), decoded)} :
          \E send \in {ret # 0 /\ ScanIsSent(decoded[ret])} :
             /\ poll_result' = [parse |-> "Ok", consumed |-> FrameLen,
                                ret |-> ret, sent |-> send /\ rx_alive]
             /\ IF send /\ ~rx_alive
                THEN \* tx.send(..).unwrap() panics
                     /\ Panicked
                     /\ UNCHANGED << scan_queue, lidar_status >>
                ELSE /\ lidar_pc' = "poll"
                     /\ port_out' = port_out
                     /\ points_log' = points_log \o emitted
                     /\ returned' = IF ret # 0 THEN Append(returned, ret)
                                    ELSE returned
                     /\ port_in' = SubSeq(port_in, FrameLen + 1, Len(port_in))
                     /\ scan_packets' = packets
                     /\ scans' = decoded
                     /\ scan_queue' = IF send
                                      THEN Append(scan_queue, decoded[ret])
                                      ELSE scan_queue
                     /\ lidar_status' = IF ret # 0 THEN "Healthy"
                                        ELSE lidar_status
    /\ UNCHANGED << rx_alive, init_mismatches, budgets >>
    /\ UNCHANGED non_lidar_vars

\* a frame is read and its sync nibbles are wrong: one more byte is read if
\* one waits, then todo!() panics
LidarPollSyncMismatch ==
    /\ lidar_pc = "poll"
    /\ Len(port_in) >= FrameLen
    /\ from_buffer(SubSeq(port_in, 1, FrameLen)).err = "SyncByteMismatch"
    /\ poll_result' = [parse |-> "SyncByteMismatch",
                       consumed |-> IF Len(port_in) > FrameLen
                                    THEN FrameLen + 1 ELSE FrameLen,
                       ret |-> 0, sent |-> FALSE]
    /\ Panicked
    /\ UNCHANGED << lidar_status, scan_queue, rx_alive, init_mismatches,
                    budgets >>
    /\ UNCHANGED non_lidar_vars

\* a frame is read and its checksum is wrong: Err, the task marks the status
\* and rebuilds the engine
LidarPollChecksumMismatch ==
    /\ lidar_pc = "poll"
    /\ Len(port_in) >= FrameLen
    /\ from_buffer(SubSeq(port_in, 1, FrameLen)).err = "ChecksumMismatch"
    /\ port_in' = SubSeq(port_in, FrameLen + 1, Len(port_in))
    /\ poll_result' = [parse |-> "ChecksumMismatch", consumed |-> FrameLen,
                       ret |-> 0, sent |-> FALSE]
    /\ lidar_status' = "UnknownError"
    /\ lidar_pc' = "new"
    /\ UNCHANGED << scan_packets, scans, scan_queue, rx_alive, returned,
                    points_log, init_mismatches, budgets >>
    /\ UNCHANGED port_out
    /\ UNCHANGED non_lidar_vars

\* add_point called with a point of any angle up to MaxAngle
CallAddPoint ==
    /\ lidar_pc = "poll"
    /\ Len(points_log) < MaxPoints
    /\ \E angle \in 0..MaxAngle :
          \E point \in {[angle_q6 |-> angle, distance_q0 |-> 1, index |-> 0]} :
             /\ scans' = add_point(scans, point)
             /\ points_log' = Append(points_log, point)
    /\ UNCHANGED << lidar_pc, port_in, scan_packets, lidar_status, scan_queue,
                    rx_alive, poll_result, returned, init_mismatches, budgets >>
    /\ UNCHANGED port_out
    /\ UNCHANGED non_lidar_vars

(***************************************************************************)
(* The drivetrain's firmware: once odometry sending is enabled it emits    *)
(* telemetry frames, whose bytes reach the port a chunk at a time.         *)
(***************************************************************************)
\* a frame's bytes arrive whole or in smaller chunks
ChunkSizes == {SmallChunk, TelemetryLen}

ArduinoSendFrame ==
    /\ drive_pc \in {"inputs", "publish_heading", "publish_wheels",
                     "outputs"}
    /\ telemetry_left > 0
    /\ arduino_out = << >>
    /\ \E t \in TelemetryFrames : arduino_out' = TelemetryBytes(t)
    /\ telemetry_left' = telemetry_left - 1
    /\ UNCHANGED << drive_pc, drive_status, arduino_in, heading,
                    wheel_positions, shared_heading, shared_wheels, observed >>
    /\ UNCHANGED non_drive_vars

ArduinoDeliver ==
    /\ arduino_out # << >>
    /\ \E chunk \in ChunkSizes :
          \E n \in {IF chunk < Len(arduino_out) THEN chunk
                                                ELSE Len(arduino_out)} :
             /\ arduino_in' = arduino_in \o SubSeq(arduino_out, 1, n)
             /\ arduino_out' = SubSeq(arduino_out, n + 1, Len(arduino_out))
    /\ UNCHANGED << drive_pc, drive_status, heading, wheel_positions,
                    shared_heading, shared_wheels, observed, telemetry_left >>
    /\ UNCHANGED non_drive_vars

(***************************************************************************)
(* The task of start_drivetrain_thread: connect, align, then read inputs   *)
(* and write outputs in turn.  The speeds it sends are left out here.      *)
(***************************************************************************)
\* the whole telemetry frames among these bytes
FramesIn(pending) == Len(pending) \div TelemetryLen

\* XavierBotDrivetrain::new succeeds: the port is open and cleared
DriveNew ==
    /\ drive_pc = "new"
    /\ drive_pc' = "align"
    /\ arduino_in' = << >>
    /\ heading' = FloatZero
    /\ wheel_positions' = WheelsZero
    /\ UNCHANGED << drive_status, arduino_out, shared_heading, shared_wheels,
                    observed, telemetry_left >>
    /\ UNCHANGED non_drive_vars

\* XavierBotDrivetrain::new fails: sleep 10 ms and try again
DriveNewFail ==
    /\ drive_pc = "new"
    /\ UNCHANGED vars

\* reset_serial_odom_alignment succeeds: sending is disabled, what was on
\* its way has arrived after 250 ms and is cleared, sending is enabled again;
\* the status becomes Healthy
DriveAlign ==
    /\ drive_pc = "align"
    /\ drive_status' = "Healthy"
    /\ drive_pc' = "inputs"
    /\ arduino_in' = << >>
    /\ arduino_out' = << >>
    /\ UNCHANGED << heading, wheel_positions, shared_heading, shared_wheels,
                    observed, telemetry_left >>
    /\ UNCHANGED non_drive_vars

\* a write of reset_serial_odom_alignment fails: continue, back to new
DriveAlignWriteFail ==
    /\ drive_pc = "align"
    /\ drive_pc' = "new"
    /\ UNCHANGED << drive_status, arduino_in, arduino_out, heading,
                    wheel_positions, shared_heading, shared_wheels, observed,
                    telemetry_left >>
    /\ UNCHANGED non_drive_vars

\* the clear of reset_serial_odom_alignment fails: unwrap panics
DriveAlignClearPanic ==
    /\ drive_pc = "align"
    /\ drive_pc' = "panicked"
    /\ UNCHANGED << drive_status, arduino_in, arduino_out, heading,
                    wheel_positions, shared_heading, shared_wheels, observed,
                    telemetry_left >>
    /\ UNCHANGED non_drive_vars

\* update_inputs returns Ok
DriveUpdateInputs ==
    /\ drive_pc = "inputs"
    /\ \E r \in {update_inputs(arduino_in,
                               [heading |-> heading,
                                wheel_positions |-> wheel_positions],
                               FramesIn(arduino_in))} :
          /\ arduino_in' = r.arduino_in
          /\ heading' = r.inputs.heading
          /\ wheel_positions' = r.inputs.wheel_positions
    /\ drive_pc' = "publish_heading"
    /\ UNCHANGED << drive_status, arduino_out, shared_heading, shared_wheels,
                    observed, telemetry_left >>
    /\ UNCHANGED non_drive_vars

\* the heading is published: its lock is taken, written under and released
DrivePublishHeading ==
    /\ drive_pc = "publish_heading"
    /\ shared_heading' = heading
    /\ drive_pc' = "publish_wheels"
    /\ UNCHANGED << drive_status, arduino_in, arduino_out, heading,
                    wheel_positions, shared_wheels, observed,
                    telemetry_left >>
    /\ UNCHANGED non_drive_vars

\* the left wheel position alone is published
DrivePublishLeftWheel ==
    /\ drive_pc = "publish_wheels"
    /\ shared_wheels' =
           [shared_wheels EXCEPT
               !.left_wheel_meters = wheel_positions.left_wheel_meters]
    /\ drive_pc' = "outputs"
    /\ UNCHANGED << drive_status, arduino_in, arduino_out, heading,
                    wheel_positions, shared_heading, observed,
                    telemetry_left >>
    /\ UNCHANGED non_drive_vars

\* the wheel positions are published, both under one hold of their lock
DrivePublishWheels ==
    /\ drive_pc = "publish_wheels"
    /\ shared_wheels' = wheel_positions
    /\ drive_pc' = "outputs"
    /\ UNCHANGED << drive_status, arduino_in, arduino_out, heading,
                    wheel_positions, shared_heading, observed,
                    telemetry_left >>
    /\ UNCHANGED non_drive_vars

\* a holder of the handles start_drivetrain_thread returns reads the
\* heading and the wheel positions, each under its lock, the drivetrain
\* task taking no step in between
ReadSharedState ==
    /\ observed' = [read |-> TRUE, heading |-> shared_heading,
                    wheels |-> shared_wheels]
    /\ UNCHANGED << drive_pc, drive_status, arduino_in, arduino_out,
                    heading, wheel_positions, shared_heading, shared_wheels,
                    telemetry_left >>
    /\ UNCHANGED non_drive_vars

\* update_inputs returns an error, from bytes_to_read or from read_exact,
\* after some reads that succeeded: break, back to new; the status is left
\* as it is and nothing is published
DriveUpdateInputsFail ==
    /\ drive_pc = "inputs"
    /\ \E limit \in 0..FramesIn(arduino_in) :
          \E r \in {update_inputs(arduino_in,
                                  [heading |-> heading,
                                   wheel_positions |-> wheel_positions],
                                  limit)} :
             /\ arduino_in' = r.arduino_in
             /\ heading' = r.inputs.heading
             /\ wheel_positions' = r.inputs.wheel_positions
    /\ drive_pc' = "new"
    /\ UNCHANGED << drive_status, arduino_out, shared_heading, shared_wheels,
                    observed, telemetry_left >>
    /\ UNCHANGED non_drive_vars

\* write_outputs succeeds; sleep 10 ms
DriveWriteOutputs ==
    /\ drive_pc = "outputs"
    /\ drive_pc' = "inputs"
    /\ UNCHANGED << drive_status, arduino_in, arduino_out, heading,
                    wheel_positions, shared_heading, shared_wheels, observed,
                    telemetry_left >>
    /\ UNCHANGED non_drive_vars

\* a write of write_outputs fails: break, back to new
DriveWriteOutputsFail ==
    /\ drive_pc = "outputs"
    /\ drive_pc' = "new"
    /\ UNCHANGED << drive_status, arduino_in, arduino_out, heading,
                    wheel_positions, shared_heading, shared_wheels, observed,
                    telemetry_left >>
    /\ UNCHANGED non_drive_vars

\* a write of write_outputs takes fewer than 4 bytes: assert_eq! panics
DriveShortWritePanic ==
    /\ drive_pc = "outputs"
    /\ drive_pc' = "panicked"
    /\ UNCHANGED << drive_status, arduino_in, arduino_out, heading,
                    wheel_positions, shared_heading, shared_wheels, observed,
                    telemetry_left >>
    /\ UNCHANGED non_drive_vars

(***************************************************************************)
(* Specifications.                                                         *)
(***************************************************************************)
\* the lidar task, its device and its consumer
Next ==
    \/ DeviceRespond
    \/ DeviceSendFrame
    \/ DeviceSendNoise
    \/ Receive
    \/ DropReceiver
    \/ LidarNew
    \/ LidarNewOpenFail
    \/ LidarNewPanic
    \/ LidarInitSend
    \/ LidarInitPanic
    \/ LidarInitTimeout
    \/ LidarInitRead
    \/ LidarPollIoError
    \/ LidarPollNone
    \/ LidarPollReadPanic
    \/ LidarPollPacket
    \/ LidarPollSyncMismatch
    \/ LidarPollChecksumMismatch

Spec == Init /\ [][Next]_vars

\* the same, the device answering the handshake wrongly some times
SpecHandshake == InitHandshake /\ [][Next]_vars

\* add_point alone, on every short sequence of angles
NextAddPoint == CallAddPoint

SpecAddPoint == InitAddPoint /\ [][NextAddPoint]_vars

\* the drivetrain task
NextDrivetrain ==
    \/ DriveNew
    \/ DriveNewFail
    \/ DriveAlign
    \/ DriveAlignWriteFail
    \/ DriveAlignClearPanic
    \/ DriveUpdateInputs
    \/ DrivePublishHeading
    \/ DrivePublishWheels
    \/ DriveUpdateInputsFail
    \/ DriveWriteOutputs
    \/ DriveWriteOutputsFail
    \/ DriveShortWritePanic

\* the drivetrain task and its firmware
NextDrivetrainIo ==
    \/ NextDrivetrain
    \/ ArduinoSendFrame
    \/ ArduinoDeliver

SpecDrivetrain == InitDrivetrain /\ [][NextDrivetrainIo]_vars

\* the drivetrain task, its firmware and a reader of what the task shares
NextSharedState ==
    \/ NextDrivetrainIo
    \/ ReadSharedState

SpecSharedState == InitDrivetrain /\ [][NextSharedState]_vars

\* both tasks, running side by side
NextTasks == Next \/ NextDrivetrain

SpecTasks == InitTasks /\ [][NextTasks]_vars

(***************************************************************************)
(* A TimeInterpolatableBuffer<f64> of retention HistorySize, under every   *)
(* sequence of add_sample and get_value with small times and values.  A    *)
(* panic ends the run.                                                     *)
(***************************************************************************)
InitBuffer ==
    /\ LidarIdle
    /\ DriveStart
    /\ telemetry_left = 0
    /\ LibraryIdle

\* the values of the samples
SampleValues == 0..MaxValue

CallAddSample ==
    /\ buffer_call.op # "panicked"
    /\ \E t \in 0..MaxTime, value \in SampleValues :
          \E r \in {add_sample(buffer, t, Rat(value, 1), HistorySize)} :
             /\ buffer' = r.buffer
             /\ buffer_call' =
                    [n |-> 1 - buffer_call.n,
                     op |-> IF r.outcome = "panic" THEN "panicked"
                                                   ELSE "add_sample",
                     t |-> t, value |-> Rat(value, 1),
                     most_recent |-> IF buffer = << >> THEN None
                                     ELSE Some(buffer[Len(buffer)])]
    /\ UNCHANGED << task_vars, odometry_vars, estimator_vars,
                 rest_vars >>

CallGetValue ==
    /\ buffer_call.op # "panicked"
    /\ \E time \in 0..MaxTime :
          buffer_call' = [n |-> 1 - buffer_call.n, op |-> "get_value",
                          t |-> time,
                          result |-> get_value(buffer, time)]
    /\ UNCHANGED buffer
    /\ UNCHANGED << task_vars, odometry_vars, estimator_vars,
                 rest_vars >>

NextBuffer ==
    \/ CallAddSample
    \/ CallGetValue

SpecBuffer == InitBuffer /\ [][NextBuffer]_vars

(***************************************************************************)
(* A DifferentialDriveOdometry under every short sequence of new, update   *)
(* and reset_pose with small gyro readings, wheel positions and poses.     *)
(***************************************************************************)
InitOdometry ==
    /\ LidarIdle
    /\ DriveStart
    /\ telemetry_left = 0
    /\ LibraryIdle

\* the gyro readings, in quarter turns
Gyros == (-MaxGyro)..MaxGyro

\* the wheel positions
Wheels ==
    { [left_wheel_meters |-> l, right_wheel_meters |-> r] :
          l \in 0..MaxWheel, r \in 0..MaxWheel }

\* the poses given to reset_pose
ResetPoses == { Pose(x, 0, theta) : x \in 0..1, theta \in 0..MaxHeading }

CallOdometryNew ==
    /\ odometry_call.op = "none"
    /\ \E gyro \in Gyros, wheels \in Wheels :
          /\ odometry' = odometry_new(gyro, wheels)
          /\ odometry_call' = [n |-> 1, op |-> "new", gyro |-> gyro,
                               wheels |-> wheels]
    /\ UNCHANGED << task_vars, buffer_vars, estimator_vars,
                 rest_vars >>

CallOdometryUpdate ==
    /\ odometry_call.op # "none"
    /\ odometry_call.n < MaxOdometryCalls
    /\ \E gyro \in Gyros, wheels \in Wheels :
          /\ UpdateIsRational(odometry, gyro, wheels)
          /\ odometry' = odometry_update(odometry, gyro, wheels)
          /\ odometry_call' = [n |-> odometry_call.n + 1, op |-> "update",
                               gyro |-> gyro, wheels |-> wheels]
    /\ UNCHANGED << task_vars, buffer_vars, estimator_vars,
                 rest_vars >>

CallOdometryResetPose ==
    /\ odometry_call.op # "none"
    /\ odometry_call.n < MaxOdometryCalls
    /\ \E gyro \in Gyros, wheels \in Wheels, pose \in ResetPoses :
          /\ odometry' = odometry_reset_pose(odometry, gyro, wheels, pose)
          /\ odometry_call' = [n |-> odometry_call.n + 1,
                               op |-> "reset_pose", gyro |-> gyro,
                               wheels |-> wheels, pose |-> pose]
    /\ UNCHANGED << task_vars, buffer_vars, estimator_vars,
                 rest_vars >>

NextOdometry ==
    \/ CallOdometryNew
    \/ CallOdometryUpdate
    \/ CallOdometryResetPose

SpecOdometry == InitOdometry /\ [][NextOdometry]_vars

(***************************************************************************)
(* A PoseEstimator built at EstimatorStart on a robot that drives straight *)
(* ahead, under every sequence of update_odometry, reset_pose,             *)
(* add_vision_measurement and sample_at with small times.  The poses given *)
(* to it have the heading it was built with, so that every interpolation   *)
(* joins two poses of one heading.  A panic ends the run; a run makes at   *)
(* most MaxEstimatorCalls calls that change the estimator.                 *)
(***************************************************************************)
\* the poses a PoseEstimator is built with
StartPoses == { Pose(0, 0, theta) : theta \in 0..MaxHeading }

InitEstimator ==
    /\ LidarIdle
    /\ DriveStart
    /\ telemetry_left = 0
    /\ BufferNew
    /\ OdometryNone
    /\ GraphNone
    /\ WsNone
    /\ NoFn
    /\ \E world_to_robot \in StartPoses :
          estimator = estimator_new(
                          world_to_robot,
                          odometry_new(0, [left_wheel_meters |-> 0,
                                           right_wheel_meters |-> 0]),
                          EstimatorStart)
    /\ estimator_call = [n |-> 0, op |-> "new", outcome |-> "ok",
                         calls |-> 0]

\* the pose reset_pose and add_vision_measurement are given: one meter from
\* the origin, in the heading of the run
RunPoses ==
    { Pose(1, 0, estimator.world_to_odom[1].v.theta_radians) }

\* both wheels at the same position
StraightWheels ==
    { [left_wheel_meters |-> w, right_wheel_meters |-> w] :
          w \in 0..MaxWheel }

CallUpdateOdometry ==
    /\ estimator_call.outcome = "ok"
    /\ estimator_call.calls < MaxEstimatorCalls
    /\ \E wheels \in StraightWheels, t \in 0..MaxTime :
          \E r \in {update_odometry(estimator, 0, wheels, t)} :
             /\ estimator' = r.estimator
             /\ estimator_call' =
                    [n |-> 1 - estimator_call.n, op |-> "update_odometry",
                     outcome |-> r.outcome, t |-> t,
                     calls |-> estimator_call.calls + 1]
    /\ UNCHANGED << task_vars, buffer_vars, odometry_vars,
                 rest_vars >>

CallResetPose ==
    /\ estimator_call.outcome = "ok"
    /\ estimator_call.calls < MaxEstimatorCalls
    /\ \E world_to_robot \in RunPoses, t \in 0..MaxTime :
          \E r \in {estimator_reset_pose(estimator, world_to_robot, t)} :
             /\ estimator' = r.estimator
             /\ estimator_call' =
                    [n |-> 1 - estimator_call.n, op |-> "reset_pose",
                     outcome |-> r.outcome, t |-> t,
                     pose |-> world_to_robot,
                     calls |-> estimator_call.calls + 1]
    /\ UNCHANGED << task_vars, buffer_vars, odometry_vars,
                 rest_vars >>

CallAddVisionMeasurement ==
    /\ estimator_call.outcome = "ok"
    /\ estimator_call.calls < MaxEstimatorCalls
    /\ \E world_to_vision_pose \in RunPoses, timestamp \in 0..MaxTime :
          \E r \in {add_vision_measurement(estimator, world_to_vision_pose,
                                           timestamp)} :
             /\ estimator' = r.estimator
             /\ estimator_call' =
                    [n |-> 1 - estimator_call.n,
                     op |-> "add_vision_measurement", outcome |-> "ok",
                     t |-> timestamp, pose |-> world_to_vision_pose,
                     result |-> r.result,
                     calls |-> estimator_call.calls + 1]
    /\ UNCHANGED << task_vars, buffer_vars, odometry_vars,
                 rest_vars >>

CallSampleAt ==
    /\ estimator_call.outcome = "ok"
    /\ \E timestamp \in 0..MaxTime :
          estimator_call' =
              [n |-> 1 - estimator_call.n, op |-> "sample_at",
               outcome |-> "ok", t |-> timestamp,
               result |-> sample_at(estimator, timestamp),
               calls |-> estimator_call.calls]
    /\ UNCHANGED estimator
    /\ UNCHANGED << task_vars, buffer_vars, odometry_vars,
                 rest_vars >>

NextEstimator ==
    \/ CallUpdateOdometry
    \/ CallResetPose
    \/ CallAddVisionMeasurement
    \/ CallSampleAt

SpecEstimator == InitEstimator /\ [][NextEstimator]_vars

(***************************************************************************)
(* A PoseGraphBackend under every sequence of at most MaxGraphCalls calls  *)
(* of add_node_with_odometry, add_loop_closure and optimize.  A panic ends *)
(* the run.  graph_call.closures counts the add_loop_closure calls since   *)
(* the graph was built or optimize last returned.                          *)
(***************************************************************************)
InitPoseGraph ==
    /\ LidarIdle
    /\ DriveStart
    /\ telemetry_left = 0
    /\ BufferNew
    /\ OdometryNone
    /\ EstimatorNone
    /\ WsNone
    /\ NoFn
    /\ graph = pose_graph_new
    /\ graph_call = [n |-> 0, op |-> "new", outcome |-> "ok", calls |-> 0,
                     closures |-> 0]
    /\ node_scans = << >>

\* what a call on the pose graph leaves alone
non_graph_vars ==
    << task_vars, buffer_vars, odometry_vars, estimator_vars, ws_vars,
       fn_call >>

\* the transforms the calls are given: one meter ahead, a quarter turn on
\* the spot, and one that is not a number
EdgeTransforms == { Pose(1, 0, 0), Pose(0, 0, 1), TransformNaN }

\* the transforms of the loop closures
ClosureTransforms == { Pose(1, 0, 0), TransformNaN }

CallAddNodeWithOdometry ==
    /\ graph_call.outcome = "ok"
    /\ graph_call.calls < MaxGraphCalls
    /\ \E prev_node_to_new \in EdgeTransforms :
          /\ graph' = add_node_with_odometry(graph, prev_node_to_new)
          /\ graph_call' =
                 [n |-> 1 - graph_call.n, op |-> "add_node_with_odometry",
                  outcome |-> "ok", calls |-> graph_call.calls + 1,
                  closures |-> graph_call.closures]
    /\ UNCHANGED node_scans
    /\ UNCHANGED non_graph_vars

CallAddLoopClosure ==
    /\ graph_call.outcome = "ok"
    /\ graph_call.calls < MaxGraphCalls
    /\ \E i \in 0..MaxNodeIndex, j \in 0..MaxNodeIndex,
          i_to_j \in ClosureTransforms :
          /\ graph' = add_loop_closure(graph, i, j, i_to_j)
          /\ graph_call' =
                 [n |-> 1 - graph_call.n, op |-> "add_loop_closure",
                  outcome |-> "ok", calls |-> graph_call.calls + 1,
                  closures |-> graph_call.closures + 1]
    /\ UNCHANGED node_scans
    /\ UNCHANGED non_graph_vars

CallOptimize ==
    /\ graph_call.outcome = "ok"
    /\ graph_call.calls < MaxGraphCalls
    /\ \E max_iterations \in 0..MaxIterations :
          /\ OptimizeIsRational(graph, max_iterations)
          /\ \E r \in {optimize(graph, max_iterations)} :
                /\ graph' = r.graph
                /\ graph_call' =
                       IF r.outcome = "ok"
                       THEN [n |-> 1 - graph_call.n, op |-> "optimize",
                             outcome |-> "ok",
                             max_iterations |-> max_iterations,
                             calls |-> graph_call.calls + 1,
                             closures |-> 0]
                       ELSE [n |-> 1 - graph_call.n, op |-> "optimize",
                             outcome |-> "panic", cause |-> r.cause,
                             max_iterations |-> max_iterations,
                             calls |-> graph_call.calls + 1,
                             closures |-> graph_call.closures]
    /\ UNCHANGED node_scans
    /\ UNCHANGED non_graph_vars

NextPoseGraph ==
    \/ CallAddNodeWithOdometry
    \/ CallAddLoopClosure
    \/ CallOptimize

SpecPoseGraph == InitPoseGraph /\ [][NextPoseGraph]_vars

(***************************************************************************)
(* varbitscale_decode on every 12-bit input and on some wider ones, built  *)
(* with and without overflow checks.  The wider inputs are the one of the  *)
(* test, the largest whose result is below 2^31, the largest whose         *)
(* remainder still fits 28 bits, the first whose remainder does not, and   *)
(* one above 2^30.                                                         *)
(***************************************************************************)
WideScaled == { 15000, 134220031, 268438783, 268438784, 1073745157 }

ScaledInputs == 0..MaxScaled \cup WideScaled

\* no library object is in use and no task runs
AllIdleButFn ==
    /\ LidarIdle
    /\ DriveStart
    /\ telemetry_left = 0
    /\ BufferNew
    /\ OdometryNone
    /\ EstimatorNone
    /\ GraphNone
    /\ WsNone

\* what the call of a function leaves alone
non_fn_vars ==
    << task_vars, buffer_vars, odometry_vars, estimator_vars, graph_vars,
       ws_vars >>

InitVarbitscale ==
    /\ AllIdleButFn
    /\ \E scaled \in ScaledInputs :
          fn_call = [n |-> 0, op |-> "varbitscale_decode",
                     scaled |-> scaled]

CallVarbitscaleDecode ==
    /\ fn_call.n = 0
    /\ fn_call.op = "varbitscale_decode"
    /\ \E overflow_checks \in BOOLEAN :
          \E r \in {varbitscale_decode(fn_call.scaled)} :
             fn_call' =
                 [n |-> 1, op |-> "varbitscale_decode",
                  scaled |-> fn_call.scaled,
                  outcome |-> IF r.overflow /\ overflow_checks
                              THEN "panic" ELSE "ok",
                  value |-> r.value, scale_level |-> r.level]
    /\ UNCHANGED non_fn_vars

NextVarbitscale == CallVarbitscaleDecode

SpecVarbitscale == InitVarbitscale /\ [][NextVarbitscale]_vars

(***************************************************************************)
(* The web server with SocketCount sockets connected.  An event reaches    *)
(* the handler of its name, which runs the one statement                   *)
(*     *state.cmd_vel.lock().unwrap() = value;                             *)
(* in four steps: the value operand is evaluated first (where data[k] can  *)
(* panic), then the mutex is locked, the value is assigned, and the guard  *)
(* is dropped at the end of the statement.  No handler panics while it     *)
(* holds the mutex, so the mutex is never poisoned.                        *)
(***************************************************************************)
\* the payloads of driveWithSpeeds: two or three floats
SpeedData ==
    { << dx, dy >> : dx \in 0..MaxSpeed, dy \in 0..MaxSpeed }
        \cup { << dx, dy, 0 >> : dx \in 0..MaxSpeed, dy \in 0..MaxSpeed }

\* the payloads of pathfindToPosition
PositionData == { Pose(x, 0, 1) : x \in 0..MaxSpeed }

DriveEvents ==
    { [name |-> "driveWithSpeeds", data |-> data] : data \in SpeedData }

PathfindEvents ==
    { [name |-> "pathfindToPosition", data |-> data] :
          data \in PositionData }

NoEvent == [name |-> "none"]

InitWs ==
    /\ LidarIdle
    /\ DriveStart
    /\ telemetry_left = 0
    /\ BufferNew
    /\ OdometryNone
    /\ EstimatorNone
    /\ GraphNone
    /\ NoFn
    /\ cmd_vel = websocket_state_new
    /\ cmd_lock = 0
    /\ sockets = [socket \in 1..SocketCount |->
                     [pc |-> "idle", event |-> NoEvent]]

\* what a step of a socket handler leaves alone
non_ws_vars ==
    << task_vars, buffer_vars, odometry_vars, estimator_vars, graph_vars,
       fn_call >>

\* a driveWithSpeeds event arrives and its handler evaluates the value to
\* assign
HandlerDriveWithSpeeds ==
    /\ \E socket \in 1..SocketCount, event \in DriveEvents :
          /\ sockets[socket].pc = "idle"
          /\ ~DataTooShort(event.data)
          /\ sockets' =
                 [sockets EXCEPT ![socket] =
                     [pc |-> "evaluated", event |-> event,
                      value |-> drive_with_speeds(event.data)]]
    /\ UNCHANGED << cmd_vel, cmd_lock >>
    /\ UNCHANGED non_ws_vars

\* a driveWithSpeeds event with fewer than three floats: data[k] panics
HandlerIndexPanic ==
    /\ \E socket \in 1..SocketCount, event \in DriveEvents :
          /\ sockets[socket].pc = "idle"
          /\ DataTooShort(event.data)
          /\ sockets' = [sockets EXCEPT ![socket] =
                            [pc |-> "panicked", event |-> NoEvent]]
    /\ UNCHANGED << cmd_vel, cmd_lock >>
    /\ UNCHANGED non_ws_vars

\* a pathfindToPosition event arrives and its handler evaluates the value
\* to assign
HandlerPathfindToPosition ==
    /\ \E socket \in 1..SocketCount, event \in PathfindEvents :
          /\ sockets[socket].pc = "idle"
          /\ sockets' =
                 [sockets EXCEPT ![socket] =
                     [pc |-> "evaluated", event |-> event,
                      value |-> pathfind_to_position(event.data)]]
    /\ UNCHANGED << cmd_vel, cmd_lock >>
    /\ UNCHANGED non_ws_vars

\* lock() returns once the mutex is free
HandlerLock ==
    /\ cmd_lock = 0
    /\ \E socket \in 1..SocketCount :
          /\ sockets[socket].pc = "evaluated"
          /\ cmd_lock' = socket
          /\ sockets' = [sockets EXCEPT ![socket].pc = "locked"]
    /\ UNCHANGED cmd_vel
    /\ UNCHANGED non_ws_vars

\* the assignment through the guard
HandlerAssign ==
    /\ \E socket \in 1..SocketCount :
          /\ sockets[socket].pc = "locked"
          /\ cmd_vel' = sockets[socket].value
          /\ sockets' = [sockets EXCEPT ![socket].pc = "assigned"]
    /\ UNCHANGED cmd_lock
    /\ UNCHANGED non_ws_vars

\* the guard is dropped and the handler returns
HandlerUnlock ==
    /\ \E socket \in 1..SocketCount :
          /\ sockets[socket].pc = "assigned"
          /\ cmd_lock' = 0
          /\ sockets' = [sockets EXCEPT ![socket] =
                            [pc |-> "idle", event |-> NoEvent]]
    /\ UNCHANGED cmd_vel
    /\ UNCHANGED non_ws_vars

NextWs ==
    \/ HandlerDriveWithSpeeds
    \/ HandlerPathfindToPosition
    \/ HandlerIndexPanic
    \/ HandlerLock
    \/ HandlerAssign
    \/ HandlerUnlock

SpecWs == InitWs /\ [][NextWs]_vars

(***************************************************************************)
(* get_path_progress on every path of at most MaxWaypoints waypoints on a  *)
(* small grid, segments of length zero included, and on every position of  *)
(* a grid that reaches beyond the waypoints on all sides.                  *)
(***************************************************************************)
WaypointSet == { Pose(x, y, 0) : x \in 0..MaxCoord, y \in 0..1 }

Positions == { Pose(x, y, 0) : x \in (-1)..(MaxCoord + 1), y \in (-1)..2 }

RECURSIVE Paths(_)
Paths(n) ==
    IF n = 0 THEN { << >> }
    ELSE { Append(path, w) : path \in Paths(n - 1), w \in WaypointSet }

InitPathProgress ==
    /\ AllIdleButFn
    /\ \E n \in 1..MaxWaypoints :
          \E waypoints \in Paths(n), tf \in Positions :
             fn_call = [n |-> 0, op |-> "get_path_progress",
                        waypoints |-> waypoints, tf |-> tf]

CallGetPathProgress ==
    /\ fn_call.n = 0
    /\ fn_call.op = "get_path_progress"
    /\ \E r \in {get_path_progress(fn_call.waypoints, fn_call.tf)} :
          fn_call' =
              IF r.outcome = "ok"
              THEN [n |-> 1, op |-> "get_path_progress",
                    waypoints |-> fn_call.waypoints, tf |-> fn_call.tf,
                    outcome |-> "ok", res |-> r.res]
              ELSE [n |-> 1, op |-> "get_path_progress",
                    waypoints |-> fn_call.waypoints, tf |-> fn_call.tf,
                    outcome |-> "panic"]
    /\ UNCHANGED non_fn_vars

NextPathProgress == CallGetPathProgress

SpecPathProgress == InitPathProgress /\ [][NextPathProgress]_vars

(***************************************************************************)
(* A Transform2d composed with its negation on either side, and compared   *)
(* with Transform2d::ZERO by PartialEq, for every transform with           *)
(* coordinates in half meters and an angle in quarter turns.               *)
(***************************************************************************)
InverseInputs ==
    { Transform2d(Rat(x, 2), Rat(y, 2), theta) :
          x \in (-MaxHalves)..MaxHalves, y \in (-MaxHalves)..MaxHalves,
          theta \in (-MaxQuarters)..MaxQuarters }

InitInverse ==
    /\ AllIdleButFn
    /\ \E transform \in InverseInputs :
          fn_call = [n |-> 0, op |-> "inverse", transform |-> transform]

\* test_inverse_transform2d on the transform
CallInverse ==
    /\ fn_call.n = 0
    /\ fn_call.op = "inverse"
    /\ \E inverse_transform \in {TransformNeg(fn_call.transform)} :
          LET right == TransformAdd(fn_call.transform, inverse_transform)
              left == TransformAdd(inverse_transform, fn_call.transform)
          IN  fn_call' =
                  [n |-> 1, op |-> "inverse",
                   transform |-> fn_call.transform,
                   inverse_transform |-> inverse_transform,
                   right |-> right, left |-> left,
                   right_is_zero |-> TransformEq(right, TransformZero),
                   left_is_zero |-> TransformEq(left, TransformZero)]
    /\ UNCHANGED non_fn_vars

NextInverse == CallInverse

SpecInverse == InitInverse /\ [][NextInverse]_vars

(***************************************************************************)
(* The distances of one cabin, as the loop of LidarEngine::poll unpacks    *)
(* them from the 32-bit cabin word and from the 12-bit distance field of   *)
(* the cabin that follows.  The fields are those a device can send: the    *)
(* checksum of a frame covers the payload whatever it holds.               *)
(***************************************************************************)
\* 12-bit distance fields: none, at scale levels 0, 1 and 4
MajorFields == {0, 5, 1000, 4095}
\* 10-bit prediction fields: 0, 1, 510, the sentinels 0x1FF and 0x200, -511, -1
PredictFields == {0, 1, 510, 511, 512, 513, 1023}

CabinInputs ==
    { [word |-> CabinWord(major, predict1, predict2), major2 |-> major2] :
          major \in MajorFields, predict1 \in PredictFields,
          predict2 \in PredictFields, major2 \in MajorFields }

InitCabin ==
    /\ AllIdleButFn
    /\ \E input \in CabinInputs :
          fn_call = [n |-> 0, op |-> "cabin", word |-> input.word,
                     major2 |-> input.major2]

\* dist_q2[j] >> 2 for j in 0..3, and which of them reach add_point
CallCabinDistances ==
    /\ fn_call.n = 0
    /\ fn_call.op = "cabin"
    /\ \E distances \in {CabinDistances(fn_call.word, fn_call.major2)} :
          fn_call' = [n |-> 1, op |-> "cabin", word |-> fn_call.word,
                      major2 |-> fn_call.major2,
                      distances |-> distances,
                      emitted |-> [j \in 1..3 |-> distances[j] # 0]]
    /\ UNCHANGED non_fn_vars

NextCabin == CallCabinDistances

SpecCabin == InitCabin /\ [][NextCabin]_vars

(***************************************************************************)
(* The angles of the 96 points of one packet, as the loops of              *)
(* LidarEngine::poll compute them from the start angles of the packet and  *)
(* of the packet that follows: one step of the model is one iteration of   *)
(* the inner loop.  from_buffer keeps 15 bits of the start angle.          *)
(***************************************************************************)
StartAngles == {0, 1, 96, 5001, 23039, 23040, 32766, 32767}

InitAngles ==
    /\ AllIdleButFn
    /\ \E prev_angle \in StartAngles, last_angle \in StartAngles :
          fn_call = [n |-> 0, op |-> "angles", prev_angle |-> prev_angle,
                     last_angle |-> last_angle, k |-> 0]

\* the point of cabin i = k \div 3, j = k % 3: raw is the u16 sum before the
\* modulo; with overflow checks the sum panics when it does not fit
CallPointAngle ==
    /\ fn_call.op = "angles"
    /\ fn_call.k < 3 * CabinCount
    /\ ("outcome" \in DOMAIN fn_call) => fn_call.outcome = "ok"
    /\ \E overflow_checks \in BOOLEAN :
       \E diff \in {AngleDiffQ6(fn_call.prev_angle, fn_call.last_angle)} :
       \E offset \in AngleOffsets(diff, fn_call.k \div 3, fn_call.k % 3) :
       \E raw \in {AngleSum(fn_call.prev_angle, offset)} :
          fn_call' = [n |-> 1, op |-> "angles",
                      prev_angle |-> fn_call.prev_angle,
                      last_angle |-> fn_call.last_angle,
                      k |-> fn_call.k + 1,
                      outcome |-> IF raw.overflow /\ overflow_checks
                                  THEN "panic" ELSE "ok",
                      overflow |-> raw.overflow,
                      raw |-> raw.sum,
                      angle_q6 |-> raw.sum % AngleModulus,
                      index |-> fn_call.k % 3]
    /\ UNCHANGED non_fn_vars

NextAngles == CallPointAngle

SpecAngles == InitAngles /\ [][NextAngles]_vars

(***************************************************************************)
(* icp_least_squares on clouds of one or two points, from an initial guess *)
(* that moves or turns the source cloud.  One step of the model is one     *)
(* iteration of the loop; the step records the estimate the iteration      *)
(* started from and the correspondences it computed.                       *)
(***************************************************************************)
ScanPoints == { << 0, 0 >>, << MaxPointCoord, 0 >>, << 0, MaxPointCoord >> }

SourceClouds ==
    { << a >> : a \in ScanPoints } \cup
    { << a, b >> : a \in {<< 0, 0 >>}, b \in ScanPoints }

ReferenceClouds ==
    { << >> } \cup { << a, b >> : a \in ScanPoints, b \in ScanPoints }

Estimate(x, y, theta) == [x |-> x, y |-> y, theta |-> theta]

InitialGuesses == { Estimate(x, 0, theta) : x \in {0, MaxPointCoord},
                                             theta \in 0..1 }

\* the solutions of the system the model lets an iteration find
IcpSteps == { Estimate(0, 0, 0), Estimate(1, 0, 0), Estimate(0, 0, 1) }

InitIcp ==
    /\ AllIdleButFn
    /\ \E p \in SourceClouds, q \in ReferenceClouds,
          initial_guess \in InitialGuesses,
          iterations \in 1..MaxIcpIterations :
          fn_call = [n |-> 0, op |-> "icp",
                     loop |-> icp_start(p, q, initial_guess, iterations)]

CallIcpIteration ==
    /\ fn_call.op = "icp"
    /\ fn_call.loop.outcome = "running"
    /\ fn_call.loop.left > 0
    /\ \E dx \in IcpSteps :
          fn_call' = [n |-> 1, op |-> "icp",
                      loop |-> icp_iteration(fn_call.loop, dx),
                      x_used |-> fn_call.loop.x,
                      correspondences |->
                          get_correspondence_indices(fn_call.loop.p_copy,
                                                     fn_call.loop.q)]
    /\ UNCHANGED non_fn_vars

NextIcp == CallIcpIteration

SpecIcp == InitIcp /\ [][NextIcp]_vars

(***************************************************************************)
(* A LidarPoseGraph, from LidarPoseGraph::new on, given scans of no, one   *)
(* or two points with the odometry since the scan before.                  *)
(***************************************************************************)
InitLidarPoseGraph ==
    /\ LidarIdle
    /\ DriveStart
    /\ telemetry_left = 0
    /\ BufferNew
    /\ OdometryNone
    /\ EstimatorNone
    /\ WsNone
    /\ NoFn
    /\ graph = pose_graph_new
    /\ graph_call = [n |-> 0, op |-> "new", outcome |-> "ok", calls |-> 0,
                     returned |-> 0]
    /\ node_scans = << >>

NewScans ==
    { << >>, << << 0, 0 >> >>, << << 0, 0 >>, << MaxPointCoord, 0 >> >> }

OdometryDeltas == { Estimate(1, 0, 0), Estimate(0, 0, 1) }

\* a caller that catches the panic of a call goes on with the graph
CallAddScan ==
    /\ graph_call.calls < MaxGraphCalls
    /\ \E odom_prev_node_to_new \in OdometryDeltas, new_scan \in NewScans :
       \E run \in IF node_scans = << >>
                  THEN {icp_start(new_scan, << >>, odom_prev_node_to_new, 0)}
                  ELSE add_scan_runs(node_scans, odom_prev_node_to_new,
                                     new_scan, IcpSteps, MaxIcpIterations) :
       \E r \in {add_scan(graph, node_scans, odom_prev_node_to_new,
                          new_scan, run)} :
          /\ graph' = r.backend
          /\ node_scans' = r.node_scans
          /\ graph_call' =
                 [n |-> 1, op |-> "add_scan", outcome |-> r.outcome,
                  calls |-> graph_call.calls + 1,
                  returned |-> graph_call.returned
                                  + IF r.outcome = "ok" THEN 1 ELSE 0,
                  odom_prev_node_to_new |-> odom_prev_node_to_new,
                  new_scan |-> new_scan,
                  matched |-> node_scans # << >>,
                  icp_result |-> run.x]
    /\ UNCHANGED non_graph_vars

NextLidarPoseGraph == CallAddScan

SpecLidarPoseGraph == InitLidarPoseGraph /\ [][NextLidarPoseGraph]_vars

(***************************************************************************)
(* write_outputs on the twists a caller can store in                       *)
(* desired_chassis_speeds: speeds in hundredths of a meter per second,     *)
(* turn rates in tenths of a radian per second, and the floats that are    *)
(* no numbers.                                                             *)
(***************************************************************************)
SpeedHundredths == {-100, -50, -2, -1, 0, 1, 2, 30, 49, 50, 100, 102}
TurnTenths == {-100, -4, -1, 0, 1, 4, 100}

DesiredSpeeds ==
    { Twist2d(dx, RatZero, dtheta) :
          dx \in { Rat(k, 100) : k \in SpeedHundredths } \cup {NaN, Infinity},
          dtheta \in { Rat(k, 10) : k \in TurnTenths } \cup {NaN, Infinity} }

InitWheelSpeeds ==
    /\ AllIdleButFn
    /\ \E desired \in DesiredSpeeds :
          fn_call = [n |-> 0, op |-> "write_outputs", desired |-> desired]

CallWheelSpeeds ==
    /\ fn_call.n = 0
    /\ fn_call.op = "write_outputs"
    /\ \E r \in {wheel_speeds(fn_call.desired)} :
          fn_call' = [n |-> 1, op |-> "write_outputs",
                      desired |-> fn_call.desired,
                      left_mps |-> r.left_mps, right_mps |-> r.right_mps,
                      saturated |-> r.saturated, norm |-> r.norm,
                      left_raw |-> r.left_raw, right_raw |-> r.right_raw]
    /\ UNCHANGED non_fn_vars

NextWheelSpeeds == CallWheelSpeeds

SpecWheelSpeeds == InitWheelSpeeds /\ [][NextWheelSpeeds]_vars

(***************************************************************************)
(* What a step of the model shows of a poll.                               *)
(***************************************************************************)
\* this step is a poll that read a 132-byte window and handed it to
\* from_buffer (every such step takes bytes off the port)
PollParsed ==
    /\ lidar_pc = "poll"
    /\ Len(port_in) >= FrameLen
    /\ port_in' # port_in
    /\ poll_result'.parse # "none"

\* this step is a poll that returned a scan to the task, which went on
PollReturned ==
    /\ lidar_pc = "poll"
    /\ lidar_pc' = "poll"
    /\ Len(returned') = Len(returned) + 1

(***************************************************************************)
(* C1.  A poll whose window has wrong sync nibbles takes exactly one byte  *)
(* off the input and the task goes on polling.                             *)
(***************************************************************************)
SyncMismatchResyncsByOneByte ==
    [][ PollParsed /\ poll_result'.parse = "SyncByteMismatch"
          => lidar_pc' = "poll" /\ port_in' = Tail(port_in) ]_vars

(***************************************************************************)
(* C2.  Neither the lidar task nor the drivetrain task ever terminates.    *)
(***************************************************************************)
TasksNeverTerminate ==
    lidar_pc # "panicked" /\ drive_pc # "panicked"

(***************************************************************************)
(* C3.  from_buffer accepts a window exactly when its sync nibbles are A   *)
(* and 5 and its checksum nibbles hold the XOR of bytes 2..131; a window   *)
(* failing both is a sync mismatch; a packet is appended to scan_packets   *)
(* only for a window that passes both.  The XOR is stated bit by bit: bit  *)
(* b of it is the parity of the bytes that have bit b set.                 *)
(***************************************************************************)
BitOf(x, b) == (x \div (2 ^ b)) % 2

SyncNibblesOk(w) == w[1] \div 16 = 10 /\ w[2] \div 16 = 5

ChecksumNibblesOk(w) ==
    \A b \in 0..7 :
        BitOf((w[1] % 16) + 16 * (w[2] % 16), b)
            = Cardinality({k \in 3..FrameLen : BitOf(w[k], b) = 1}) % 2

Verdict(w) ==
    IF ~SyncNibblesOk(w) THEN "SyncByteMismatch"
    ELSE IF ~ChecksumNibblesOk(w) THEN "ChecksumMismatch"
    ELSE "Ok"

FromBufferAcceptsIffSyncAndChecksum ==
    [][ /\ PollParsed
            => poll_result'.parse = Verdict(SubSeq(port_in, 1, FrameLen))
        /\ Len(scan_packets') > Len(scan_packets)
            => /\ PollParsed
               /\ Verdict(SubSeq(port_in, 1, FrameLen)) = "Ok" ]_vars

\* a window was accepted and its packet appended after another
FrameAccepted ==
    /\ lidar_pc = "poll"
    /\ poll_result.parse = "Ok"
    /\ Len(scan_packets) >= 2

(***************************************************************************)
(* C4.  A poll whose window has a wrong checksum takes exactly the 132     *)
(* bytes of that frame, keeps scan_packets and scans as they were, and the *)
(* task goes on polling.                                                   *)
(***************************************************************************)
ChecksumMismatchDropsOnlyTheFrame ==
    [][ PollParsed /\ poll_result'.parse = "ChecksumMismatch"
          => /\ lidar_pc' = "poll"
             /\ port_in' = SubSeq(port_in, FrameLen + 1, Len(port_in))
             /\ scan_packets' = scan_packets
             /\ scans' = scans ]_vars

(***************************************************************************)
(* C5.  The stored scans, one after the other, are the points passed to    *)
(* add_point in arrival order; no stored scan is empty; the angles inside  *)
(* a scan never decrease; and a scan starts at a point (other than the     *)
(* first) exactly when its angle is strictly below its predecessor's.      *)
(***************************************************************************)
RECURSIVE Flatten(_)
Flatten(ss) ==
    IF ss = << >> THEN << >>
    ELSE Flatten(SubSeq(ss, 1, Len(ss) - 1)) \o ss[Len(ss)]

\* the positions, in arrival order, of the first points of scans 2, 3, ..
ScanStarts(ss) ==
    { 1 + Len(Flatten(SubSeq(ss, 1, m))) : m \in 1..(Len(ss) - 1) }

AddPointKeepsArrivalOrder ==
    /\ Flatten(scans) = points_log
    /\ \A s \in 1..Len(scans) : scans[s] # << >>
    /\ \A s \in 1..Len(scans) : \A k \in 2..Len(scans[s]) :
           scans[s][k - 1].angle_q6 <= scans[s][k].angle_q6
    /\ \A k \in 2..Len(points_log) :
           (points_log[k].angle_q6 < points_log[k - 1].angle_q6)
               <=> (k \in ScanStarts(scans))

\* a scan was closed, and two points in a row had the same angle
ScansSplitWithEqualAngles ==
    /\ Len(scans) >= 2
    /\ \E k \in 2..Len(points_log) :
           points_log[k].angle_q6 = points_log[k - 1].angle_q6

(***************************************************************************)
(* C6.  As claimed: the scans poll has returned are all the completed      *)
(* scans (all but the last), each once, in completion order.               *)
(***************************************************************************)
EveryCompletedScanReturnedOnce ==
    returned = [i \in 1..(Len(scans) - 1) |-> i]

(***************************************************************************)
(* C6, amended.  A poll returns a scan exactly when it closed one (it      *)
(* added a scan after the first), and it returns the last but one; so the  *)
(* returned scans are completed scans, returned at most once each and in   *)
(* completion order.  A poll that closes two scans returns only the later. *)
(***************************************************************************)
PollReturnsSecondMostRecent ==
    /\ [](\A k \in 1..Len(returned) :
              /\ returned[k] < Len(scans)
              /\ k > 1 => returned[k - 1] < returned[k])
    /\ [][ lidar_pc = "poll" /\ lidar_pc' = "poll"
             => IF Len(scans') >= 2 /\ Len(scans') > Len(scans)
                THEN returned' = Append(returned, Len(scans') - 1)
                ELSE returned' = returned ]_vars

\* one poll closed two scans: the first completed scan was never returned
TwoScansClosedInOnePoll ==
    /\ lidar_pc = "poll"
    /\ Len(scans) = 3
    /\ returned = <<2>>

(***************************************************************************)
(* C7.  As claimed: a scan poll returns is put on the scan queue exactly   *)
(* when it has at least 10 points.                                         *)
(***************************************************************************)
ScanSentIffAtLeast10 ==
    [][ PollReturned
          => LET scan == scans'[returned'[Len(returned')]]
             IN  IF Len(scan) >= MinScanPoints
                 THEN scan_queue' = Append(scan_queue, scan)
                 ELSE scan_queue' = scan_queue ]_vars

(***************************************************************************)
(* C7, amended.  A scan poll returns is put on the scan queue exactly when *)
(* it has more than 10 points; nothing else is ever put on the queue.      *)
(***************************************************************************)
ScanSentIffMoreThan10 ==
    [][ /\ PollReturned
            => LET scan == scans'[returned'[Len(returned')]]
               IN  IF Len(scan) >= MinScanPoints + 1
                   THEN scan_queue' = Append(scan_queue, scan)
                   ELSE scan_queue' = scan_queue
        /\ Len(scan_queue') > Len(scan_queue) => PollReturned ]_vars

\* a scan of exactly 10 points was returned and not sent
TenPointScanNotSent ==
    /\ lidar_pc = "poll"
    /\ rx_alive
    /\ poll_result.ret # 0
    /\ ~poll_result.sent
    /\ Len(scans[poll_result.ret]) = MinScanPoints

(***************************************************************************)
(* C8.  The scans waiting in the queue never exceed a fixed capacity.      *)
(***************************************************************************)
ScanQueueBounded ==
    Len(scan_queue) <= ScanQueueCapacity

(***************************************************************************)
(* C9.  As claimed: after the fifth mismatching descriptor in a row no     *)
(* further handshake is attempted.                                         *)
(***************************************************************************)
HandshakeRetriedAtMost5Times ==
    init_mismatches >= 5 => lidar_pc # "init_wait"

(***************************************************************************)
(* C9, amended.  A mismatching descriptor is always followed by another    *)
(* attempt, however many mismatches came before.                           *)
(***************************************************************************)
HandshakeRetriedWithoutLimit ==
    [][ init_mismatches' = init_mismatches + 1
          => lidar_pc = "init_wait" /\ lidar_pc' = "init_send" ]_vars

\* the request is out again after more than five mismatches in a row
SeventhHandshakeAttempt ==
    /\ lidar_pc = "init_wait"
    /\ init_mismatches >= 6

(***************************************************************************)
(* C10.  After a poll that met a sync or a checksum mismatch the shared    *)
(* lidar status reads ProtocolError.                                       *)
(***************************************************************************)
MismatchSetsProtocolError ==
    poll_result.parse \in {"SyncByteMismatch", "ChecksumMismatch"}
        => lidar_status = "ProtocolError"

(***************************************************************************)
(* What a step of the model shows of update_inputs.                        *)
(***************************************************************************)
\* this step is a call of update_inputs that returned, Ok or not
UpdateInputsReturned ==
    /\ drive_pc = "inputs"
    /\ drive_pc' # "inputs"

\* this step is a call of update_inputs that returned Ok
UpdateInputsReturnedOk ==
    /\ drive_pc = "inputs"
    /\ drive_pc' = "publish_heading"

\* the step took n whole frames off the front of the input, n >= 0, and
\* heading and wheel_positions are the readings of the n-th as the firmware
\* meant them (left, minus right, minus yaw), or are unchanged when n = 0
ConsumedWholeFrames ==
    \E n \in 0..(Len(arduino_in) \div TelemetryLen) :
       /\ arduino_in' =
              SubSeq(arduino_in, n * TelemetryLen + 1, Len(arduino_in))
       /\ IF n = 0
          THEN heading' = heading /\ wheel_positions' = wheel_positions
          ELSE \E t \in TelemetryFrames :
                  /\ TelemetryBytes(t) =
                         SubSeq(arduino_in, (n - 1) * TelemetryLen + 1,
                                n * TelemetryLen)
                  /\ wheel_positions' = [left_wheel_meters  |-> t.left,
                                         right_wheel_meters |-> -t.right]
                  /\ heading' = [t.yaw EXCEPT !.sign = 1 - t.yaw.sign]

(***************************************************************************)
(* C11.  The drivetrain status is not Healthy while the task is back at    *)
(* connecting or aligning, that is from a failure of update_inputs or      *)
(* write_outputs until the next alignment succeeds.                        *)
(***************************************************************************)
StatusNotHealthyWhileReconnecting ==
    drive_pc \in {"new", "align"} => drive_status # "Healthy"

(***************************************************************************)
(* C12.  As stated: whenever update_inputs returns, it has consumed whole  *)
(* 12-byte frames in arrival order, fewer than 12 bytes remain pending,    *)
(* and heading and wheel_positions are those of the last frame consumed.   *)
(***************************************************************************)
UpdateInputsAlwaysDrainsWholeFrames ==
    [][ UpdateInputsReturned
          => ConsumedWholeFrames /\ Len(arduino_in') < TelemetryLen ]_vars

(***************************************************************************)
(* C12, amended.  Whenever update_inputs returns Ok, it has consumed whole *)
(* 12-byte frames in arrival order, fewer than 12 bytes remain pending,    *)
(* and heading and wheel_positions are those of the last frame consumed,   *)
(* or unchanged if there was none; when it returns an error it has         *)
(* consumed whole frames likewise, but whole frames may remain.            *)
(***************************************************************************)
UpdateInputsOkDrainsWholeFrames ==
    [][ /\ UpdateInputsReturned => ConsumedWholeFrames
        /\ UpdateInputsReturnedOk => Len(arduino_in') < TelemetryLen ]_vars

\* update_inputs has returned Ok with a partial frame left pending, the
\* readings being those of the second frame of TelemetryFrames
PartialFrameLeftPending ==
    /\ drive_pc = "publish_heading"
    /\ Len(arduino_in) \in 1..(TelemetryLen - 1)
    /\ wheel_positions = [left_wheel_meters |-> -2, right_wheel_meters |-> 1]
    /\ heading = [sign |-> 0, exponent |-> 128, mantissa |-> 2097152]

(***************************************************************************)
(* What a step of the model shows of a call on the f64 buffer.             *)
(***************************************************************************)
\* this step is a call of add_sample, which returned or panicked
AddSampleCalled ==
    /\ buffer_call'.n # buffer_call.n
    /\ buffer_call'.op \in {"add_sample", "panicked"}

\* this step is a call of get_value
GetValueCalled ==
    /\ buffer_call'.n # buffer_call.n
    /\ buffer_call'.op = "get_value"

\* the timestamps stored in a buffer
Keys(buf) == { buf[i].t : i \in 1..Len(buf) }

\* the entries of a buffer, as a set
Entries(buf) == { buf[i] : i \in 1..Len(buf) }

Newest(S) == CHOOSE k \in S : \A j \in S : j <= k

Oldest(S) == CHOOSE k \in S : \A j \in S : k <= j

AddSampleKeepsExactlyTheWindow ==
    [][ AddSampleCalled /\ buffer_call'.op = "add_sample" =>
          /\ buffer' # << >>
          /\ Newest(Keys(buffer')) = buffer_call'.t
          /\ \A k \in Keys(buffer') : buffer_call'.t - k <= HistorySize
          /\ \A e \in Entries(buffer) :
                (e.t # buffer_call'.t /\ buffer_call'.t - e.t <= HistorySize)
                    => e \in Entries(buffer') ]_vars

\* add_sample has returned and the oldest entry kept is exactly W older
\* than the newest, an older one having been dropped
SampleExactlyWindowOldKept ==
    /\ buffer_call.op = "add_sample"
    /\ Len(buffer) >= 2
    /\ buffer[Len(buffer)].t - buffer[1].t = HistorySize
    /\ buffer[1].t > 0

(***************************************************************************)
(* C15.  get_value(t) is None iff the buffer is empty; otherwise it is the *)
(* oldest value for t <= t_first, the newest value for t >= t_last, and    *)
(* between them the interpolation of the adjacent samples lo and hi,       *)
(* t_lo <= t < t_hi, with the parameter (t - t_lo) / (t_hi - t_lo), which  *)
(* is in [0, 1).                                                           *)
(***************************************************************************)
GetValueClampsOrInterpolates ==
    [][ GetValueCalled =>
          LET time == buffer_call'.t
              result == buffer_call'.result
              keys == Keys(buffer)
          IN  IF buffer = << >> THEN result = None
              ELSE /\ result.some
                   /\ IF time <= Oldest(keys)
                      THEN result.value = buffer[1].v
                      ELSE IF time >= Newest(keys)
                      THEN result.value = buffer[Len(buffer)].v
                      ELSE \E lo, hi \in Entries(buffer) :
                              /\ lo.t <= time /\ time < hi.t
                              /\ \A k \in keys : k <= lo.t \/ k >= hi.t
                              /\ 0 <= time - lo.t
                              /\ time - lo.t < hi.t - lo.t
                              /\ result.value =
                                     InterpolateF64(lo.v, hi.v,
                                         Rat(time - lo.t, hi.t - lo.t))
        ]_vars

\* get_value has returned a value strictly between two samples
ValueInterpolatedBetweenSamples ==
    /\ buffer_call.op = "get_value"
    /\ buffer_call.result.some
    /\ buffer_call.result.value.den > 1

(***************************************************************************)
(* C20.  Right after new the pose is the origin and right after            *)
(* reset_pose(g, w, P) it is P; and an update with the gyro reading and    *)
(* the wheel positions that new or reset_pose was just given leaves the    *)
(* pose as it is, whatever the gyro reading and the heading of P.          *)
(***************************************************************************)
UpdateWithSameReadingKeepsPose ==
    [][ odometry_call'.n = odometry_call.n + 1 =>
          /\ odometry_call'.op = "new"
                => odometry_get_pose(odometry') = TransformZero
          /\ odometry_call'.op = "reset_pose"
                => odometry_get_pose(odometry') = odometry_call'.pose
          /\ ( /\ odometry_call'.op = "update"
               /\ odometry_call.op \in {"new", "reset_pose"}
               /\ odometry_call'.gyro = odometry_call.gyro
               /\ odometry_call'.wheels = odometry_call.wheels )
                => odometry_get_pose(odometry') = odometry_get_pose(odometry)
      ]_vars

(***************************************************************************)
(* What a step of the model shows of a call on the pose estimator.         *)
(***************************************************************************)
\* this step is a call of op on the pose estimator
SampleAtCalled ==
    /\ estimator_call'.n # estimator_call.n
    /\ estimator_call'.op = "sample_at"

VisionCalled ==
    /\ estimator_call'.n # estimator_call.n
    /\ estimator_call'.op = "add_vision_measurement"

ResetPoseCalled ==
    /\ estimator_call'.n # estimator_call.n
    /\ estimator_call'.op = "reset_pose"

\* the entry of a map with the greatest timestamp among those up to t
LatestUpTo(map, t) ==
    CHOOSE e \in Entries(map) :
        /\ e.t <= t
        /\ \A f \in Entries(map) : f.t <= t => f.t <= e.t

(***************************************************************************)
(* C16.  sample_at(t) is an error when the correction map has no entry     *)
(* with a timestamp up to t or the odometry buffer is empty; otherwise it  *)
(* is the correction with the greatest timestamp up to t, followed by the  *)
(* odometry pose the buffer gives for t.                                   *)
(***************************************************************************)
SampleAtComposesLatestCorrection ==
    [][ SampleAtCalled =>
          LET t == estimator_call'.t
              map == estimator.world_to_odom
              buf == estimator.odometry_buffer
          IN  IF buf = << >> \/ \A k \in Keys(map) : k > t
              THEN estimator_call'.result = Err
              ELSE estimator_call'.result =
                       Ok(TransformAdd(LatestUpTo(map, t).v,
                                       get_value(buf, t).value)) ]_vars

\* sample_at has returned a pose for a time between two corrections and
\* between two odometry samples, in a heading where the order of the
\* composition matters
SampledBetweenTwoCorrections ==
    /\ estimator_call.op = "sample_at"
    /\ estimator_call.result.ok
    /\ Len(estimator.world_to_odom) = 2
    /\ estimator.world_to_odom[1].t <= estimator_call.t
    /\ estimator_call.t < estimator.world_to_odom[2].t
    /\ estimator.world_to_odom[1].v.theta_radians = 1
    /\ Len(estimator.odometry_buffer) = 2
    /\ estimator.odometry_buffer[1].t < estimator_call.t
    /\ estimator_call.t < estimator.odometry_buffer[2].t
    /\ estimator.odometry_buffer[1].v # estimator.odometry_buffer[2].v

(***************************************************************************)
(* C17.  add_vision_measurement with timestamp t inserts a correction only *)
(* when t is within the span of the samples the odometry buffer holds; for *)
(* a t outside of it, it returns an error and leaves the correction map    *)
(* as it was.                                                              *)
(***************************************************************************)
VisionAcceptedOnlyWithinBufferSpan ==
    [][ VisionCalled =>
          LET t == estimator_call'.t
              keys == Keys(estimator.odometry_buffer)
          IN  (keys = {} \/ t < Oldest(keys) \/ t > Newest(keys))
                  => /\ ~estimator_call'.result.ok
                     /\ estimator'.world_to_odom = estimator.world_to_odom
      ]_vars

(***************************************************************************)
(* C18.  After a successful add_vision_measurement no entry of the         *)
(* correction map is older than BUFFER_SIZE relative to the newest         *)
(* odometry sample.                                                        *)
(***************************************************************************)
VisionPrunesOldCorrections ==
    [][ VisionCalled /\ estimator_call'.result.ok =>
          \A k \in Keys(estimator'.world_to_odom) :
              Newest(Keys(estimator'.odometry_buffer)) - k <= BUFFER_SIZE
      ]_vars

(***************************************************************************)
(* C19.  reset_pose(pose, t) panics and leaves the estimator as it was     *)
(* whenever the correction map holds an entry with a timestamp of t or     *)
(* later; otherwise it adds to the map, at t, pose followed by the inverse *)
(* of the current odometry pose, and changes nothing else.                 *)
(***************************************************************************)
ResetPoseAssertsNewerTimestamp ==
    [][ ResetPoseCalled =>
          LET t == estimator_call'.t
              map == estimator.world_to_odom
          IN  IF \E k \in Keys(map) : k >= t
              THEN /\ estimator_call'.outcome = "panic"
                   /\ estimator' = estimator
              ELSE /\ estimator_call'.outcome = "ok"
                   /\ estimator'.world_to_odom =
                          Append(map,
                              [t |-> t,
                               v |-> TransformAdd(
                                         estimator_call'.pose,
                                         TransformNeg(odometry_get_pose(
                                             estimator.odometry)))])
                   /\ estimator'.odometry = estimator.odometry
                   /\ estimator'.odometry_buffer = estimator.odometry_buffer
      ]_vars

\* reset_pose has panicked at the timestamp of a correction that a vision
\* measurement had inserted after the estimator was built
ResetPanickedAtVisionTimestamp ==
    /\ estimator_call.op = "reset_pose"
    /\ estimator_call.outcome = "panic"
    /\ Len(estimator.world_to_odom) = 2
    /\ estimator.world_to_odom[2].t = estimator_call.t
    /\ estimator.world_to_odom[2].v.x_meters.den > 1

(***************************************************************************)
(* Claims about the pose graph.                                            *)
(***************************************************************************)
\* C21: every stored edge (i, j) names two nodes that exist, i < N and
\* j < N for the node count N
EdgesReferenceExistingNodes ==
    graph # None =>
        \A k \in 1..Len(graph.edges) :
           /\ graph.edges[k].i < Len(graph.nodes)
           /\ graph.edges[k].j < Len(graph.nodes)

\* C22: while the graph is in use, dirty is true exactly when
\* add_loop_closure has been called since the graph was built or optimize
\* last returned
DirtyIffLoopClosureSinceOptimize ==
    (graph # None /\ graph_call.outcome = "ok") =>
        (graph.dirty <=> graph_call.closures > 0)

\* optimize(0) has returned on a graph that a loop closure had made dirty,
\* and the graph has a node besides the first
OptimizeWithoutIterationsCleared ==
    /\ graph # None
    /\ graph_call.op = "optimize"
    /\ graph_call.outcome = "ok"
    /\ graph_call.max_iterations = 0
    /\ Len(graph.nodes) > 1
    /\ \E k \in 1..Len(graph.edges) : graph.edges[k].j # graph.edges[k].i + 1
    /\ ~graph.dirty

\* C23: a Cholesky factorisation that fails in optimize does not terminate
\* the caller: optimize returns
FactorFailureReturns ==
    ~(graph_call.op = "optimize" /\ graph_call.outcome = "panic"
          /\ graph_call.cause = "factor")

(***************************************************************************)
(* Claims about varbitscale_decode.                                        *)
(***************************************************************************)
\* the thresholds, levels and target bases of C24, top to bottom
Thresholds == << 3328, 1792, 1280, 512, 0 >>

Levels == << 4, 3, 2, 1, 0 >>

TargetBases == << 16384, 4096, 2048, 512, 0 >>

\* the first row, top to bottom, whose threshold is at most scaled
FirstRow(scaled) ==
    CHOOSE i \in 1..5 :
       /\ Thresholds[i] <= scaled
       /\ \A k \in 1..(i - 1) : Thresholds[k] > scaled

\* the call returned target_base + ((scaled - threshold) << level) with the
\* level of the first row whose threshold is at most scaled; the equation
\* is divided by 2^level
DecodedByFirstRow ==
    LET row == FirstRow(fn_call.scaled)
        rest == fn_call.value - TargetBases[row]
    IN  /\ fn_call.outcome = "ok"
        /\ fn_call.scale_level = Levels[row]
        /\ rest % Pow2(Levels[row]) = 0
        /\ rest \div Pow2(Levels[row]) = fn_call.scaled - Thresholds[row]

VarbitscaleReturned == fn_call.op = "varbitscale_decode" /\ fn_call.n = 1

\* C24 as stated: every input below 2^31 is decoded by the first row whose
\* threshold is at most the input
VarbitscaleDecodesEveryInput == VarbitscaleReturned => DecodedByFirstRow

\* C24, amended: every 12-bit input, and every larger one up to
\* 2^28 + 2303 = 268437759, is decoded by the first row whose threshold is at most the
\* input, and the inputs 1000, 2000, 1500, 15000 and 0 give (1488, 1),
\* (5760, 3), (2928, 2), (203136, 4) and (0, 0)
VarbitscaleDecodesUpToLargest ==
    VarbitscaleReturned =>
        /\ fn_call.scaled <= 268437759 => DecodedByFirstRow
        /\ \A example \in { << 1000, 1488, 1 >>, << 2000, 5760, 3 >>,
                            << 1500, 2928, 2 >>, << 15000, 203136, 4 >>,
                            << 0, 0, 0 >> } :
              fn_call.scaled = example[1] =>
                  /\ fn_call.value = example[2]
                  /\ fn_call.scale_level = example[3]

\* an input on a threshold has been decoded by that threshold's row
DecodedOnThreshold ==
    /\ VarbitscaleReturned
    /\ fn_call.scaled = 1792
    /\ fn_call.value = 4096
    /\ fn_call.scale_level = 3

(***************************************************************************)
(* Claims about the shared drive command.                                  *)
(***************************************************************************)
\* the command an event carries: driveWithSpeeds [dx, dy, dtheta] carries
\* TeleopVelocity(dx, dy, dtheta), pathfindToPosition carries
\* PathfindToPosition of its pose
Carried(event) ==
    IF event.name = "driveWithSpeeds"
    THEN [command |-> "TeleopVelocity",
          twist |-> [dx |-> Rat(event.data[1], 1),
                     dy |-> Rat(event.data[2], 1),
                     dtheta |-> event.data[3]]]
    ELSE [command |-> "PathfindToPosition", target |-> event.data]

\* the sockets whose handler is between lock and the drop of the guard
Holders ==
    { socket \in 1..SocketCount :
          sockets[socket].pc \in {"locked", "assigned"} }

\* C25: the command starts as TeleopVelocity(0, 0, 0); it changes only in
\* the assignment of the handler that holds the lock, to the command that
\* handler's event carries, whatever it was before; and the lock is held
\* by one handler, only from its lock to the end of its assignment
CommandIsTheOneOfTheLatestEvent ==
    /\ cmd_vel = [command |-> "TeleopVelocity",
                  twist |-> [dx |-> RatZero, dy |-> RatZero, dtheta |-> 0]]
    /\ [][\A socket \in 1..SocketCount :
             (sockets[socket].pc = "locked"
                  /\ sockets'[socket].pc = "assigned")
                 => /\ cmd_lock = socket
                    /\ cmd_vel' = Carried(sockets[socket].event)]_vars
    /\ [][cmd_vel' # cmd_vel
             => \E socket \in 1..SocketCount :
                   /\ sockets[socket].pc = "locked"
                   /\ sockets'[socket].pc = "assigned"]_vars
    /\ [](Holders = IF cmd_lock = 0 THEN {} ELSE {cmd_lock})

\* the handler of a pathfindToPosition event has assigned its command
\* while the handler of a driveWithSpeeds event waits for the lock
PathfindReplacedTeleop ==
    /\ sockets # << >>
    /\ cmd_vel.command = "PathfindToPosition"
    /\ cmd_vel.target = Pose(1, 0, 1)
    /\ \E socket \in 1..SocketCount :
          /\ sockets[socket].pc = "assigned"
          /\ sockets[socket].event.name = "pathfindToPosition"
    /\ \E socket \in 1..SocketCount :
          /\ sockets[socket].pc = "evaluated"
          /\ sockets[socket].event.name = "driveWithSpeeds"
          /\ sockets[socket].event.data = << 1, 0, 0 >>

(***************************************************************************)
(* Claims about driving straight.                                          *)
(***************************************************************************)
\* this step is an update in which both wheels advance by the same amount
\* since the call before and the gyro reading is the one of that call
StraightUpdate ==
    /\ odometry_call'.n = odometry_call.n + 1
    /\ odometry_call'.op = "update"
    /\ odometry_call'.gyro = odometry_call.gyro
    /\ odometry_call'.wheels.left_wheel_meters
           - odometry_call.wheels.left_wheel_meters
       = odometry_call'.wheels.right_wheel_meters
           - odometry_call.wheels.right_wheel_meters

\* the pose of this step's update is the pose before it moved by d along
\* its heading
MovedAhead ==
    LET d == odometry_call'.wheels.left_wheel_meters
                 - odometry_call.wheels.left_wheel_meters
        before == odometry.pose
        after == odometry'.pose
    IN  /\ after.theta_radians = before.theta_radians
        /\ after.x_meters
               = RatAdd(before.x_meters,
                        Rat(d * CosQuarter(before.theta_radians), 1))
        /\ after.y_meters
               = RatAdd(before.y_meters,
                        Rat(d * SinQuarter(before.theta_radians), 1))

\* C26: an update in which both wheels advance by the same amount d and
\* the gyro reading is unchanged keeps the heading and moves the pose by
\* (d, 0, 0) in the body frame
StraightUpdateMovesAhead == [][StraightUpdate => MovedAhead]_vars

(***************************************************************************)
(* Claims about get_path_progress.                                         *)
(***************************************************************************)
\* the point of segment i of the path at t, and the square of its distance
\* to the position
PathPoint(i, t) ==
    LET a == fn_call.waypoints[i + 1]
        b == fn_call.waypoints[i + 2]
    IN  [x |-> RatAdd(a.x_meters,
                      RatMul(RatSub(b.x_meters, a.x_meters), t)),
         y |-> RatAdd(a.y_meters,
                      RatMul(RatSub(b.y_meters, a.y_meters), t))]

SquaredDistance(i, t) ==
    LET p == PathPoint(i, t)
        ex == RatSub(fn_call.tf.x_meters, p.x)
        ey == RatSub(fn_call.tf.y_meters, p.y)
    IN  RatAdd(RatMul(ex, ex), RatMul(ey, ey))

\* the t at which the line through segment k is closest to the position,
\* for a segment that is not a point
Foot(k) ==
    LET a == fn_call.waypoints[k + 1]
        b == fn_call.waypoints[k + 2]
        vx == RatSub(b.x_meters, a.x_meters)
        vy == RatSub(b.y_meters, a.y_meters)
        wx == RatSub(fn_call.tf.x_meters, a.x_meters)
        wy == RatSub(fn_call.tf.y_meters, a.y_meters)
    IN  RatDiv(RatAdd(RatMul(vx, wx), RatMul(vy, wy)),
               RatAdd(RatMul(vx, vx), RatMul(vy, vy)))

IsPoint(k) ==
    /\ fn_call.waypoints[k + 1].x_meters = fn_call.waypoints[k + 2].x_meters
    /\ fn_call.waypoints[k + 1].y_meters = fn_call.waypoints[k + 2].y_meters

InUnit(t) == ~RatLess(t, RatZero) /\ ~RatLess(RatOne, t)

\* no point of segment k is closer to the position than d: the squared
\* distance along the segment is a parabola in t, least at an end of
\* [0, 1] or at the foot of the perpendicular if that lies within
NoneCloser(k, d) ==
    /\ ~RatLess(SquaredDistance(k, RatZero), d)
    /\ ~RatLess(SquaredDistance(k, RatOne), d)
    /\ (~IsPoint(k) /\ InUnit(Foot(k)))
           => ~RatLess(SquaredDistance(k, Foot(k)), d)

\* every point of segment k is farther from the position than d
AllFarther(k, d) ==
    /\ RatLess(d, SquaredDistance(k, RatZero))
    /\ RatLess(d, SquaredDistance(k, RatOne))
    /\ (~IsPoint(k) /\ InUnit(Foot(k)))
           => RatLess(d, SquaredDistance(k, Foot(k)))

Segments == 0..(Len(fn_call.waypoints) - 2)

PathProgressReturned == fn_call.op = "get_path_progress" /\ fn_call.n = 1

AttemptOnThePort ==
    << [op |-> "write", bytes |-> <<165, 37>>], [op |-> "clear"],
       [op |-> "write", bytes |-> <<165, 130, 5, 3, 0, 0, 0, 0, 33>>] >>

InitReturnsOnlyOnTheDescriptor ==
    [][ /\ (lidar_pc # "poll" /\ lidar_pc' = "poll")
           => /\ lidar_pc = "init_wait"
              /\ Len(port_in) >= 7
              /\ SubSeq(port_in, 1, 7) = <<165, 90, 132, 0, 0, 64, 132>>
              /\ port_out = AttemptOnThePort
        /\ (lidar_pc = "init_wait"
              /\ lidar_pc' \notin {"init_wait", "poll", "panicked"})
           => lidar_pc' = "init_send"
        /\ (lidar_pc = "init_send"
              /\ lidar_pc' \notin {"init_send", "panicked"})
           => /\ lidar_pc' = "init_wait"
              /\ port_out' = AttemptOnThePort
              /\ port_in' = << >>
        /\ (Len(scan_packets') > Len(scan_packets)
              \/ Len(points_log') > Len(points_log))
           => lidar_pc = "poll" ]_vars

\* init has returned on the descriptor after an attempt that failed
InitReturnedAfterRetry ==
    /\ lidar_pc = "poll"
    /\ init_mismatches >= 1
    /\ port_out = AttemptOnThePort
    /\ scan_packets = << >>


(***************************************************************************)
(* C30.  Decoding lags framing by one packet.  With the packets the engine *)
(* has accepted since its initialisation numbered in arrival order, the    *)
(* points passed to add_point are the points of packet 1, then of packet   *)
(* 2, ... up to the last packet but one, each packet once: none when one   *)
(* packet has been accepted.  The points of packet k are those of its 32   *)
(* cabins, three per cabin less those of distance 0 (at most 96), cabin 31 *)
(* taking its second distance field from cabin 0 of packet k + 1, the      *)
(* angles stepping by (start_angle(k + 1) - start_angle(k)) mod 23040      *)
(* over the 96 points.                                                     *)
(***************************************************************************)
LaggedAngleStep(k) ==
    (scan_packets[k + 1].start_angle_q6 - scan_packets[k].start_angle_q6)
        % 23040

LaggedNextMajor(k, i) ==
    IF i = 31 THEN scan_packets[k + 1].ultra_cabins[1].lo % 4096
    ELSE scan_packets[k].ultra_cabins[i + 2].lo % 4096

\* the point n = 3i + j of packet k
LaggedPoint(k, n) ==
    [angle_q6 |-> (scan_packets[k].start_angle_q6
                     + (LaggedAngleStep(k) * n) \div 96) % 23040,
     distance_q0 |-> CabinDistances(scan_packets[k].ultra_cabins[(n \div 3) + 1],
                                    LaggedNextMajor(k, n \div 3))[(n % 3) + 1],
     index |-> n % 3]

HasDistance(point) == point.distance_q0 # 0

LaggedPoints(k) ==
    SelectSeq([n \in 1..96 |-> LaggedPoint(k, n - 1)], HasDistance)

RECURSIVE LaggedPointsUpTo(_)
LaggedPointsUpTo(k) ==
    IF k <= 0 THEN << >> ELSE LaggedPointsUpTo(k - 1) \o LaggedPoints(k)

DecodingLagsFramingByOnePacket ==
    /\ points_log = LaggedPointsUpTo(Len(scan_packets) - 1)
    /\ \A k \in 1..(Len(scan_packets) - 1) : Len(LaggedPoints(k)) <= 96

\* three packets accepted, two decoded in their order: the 96 points of the
\* first, its last one from the distance field of cabin 0 of the second,
\* then the one point of the second
TwoPacketsDecodedInOrder ==
    /\ Len(scan_packets) = 3
    /\ scan_packets[1].start_angle_q6 = 5001
    /\ scan_packets[2].ultra_cabins[1].lo % 4096 = 2000
    /\ Len(points_log) = 97
    /\ points_log[96].distance_q0 = 5776
    /\ points_log[96].angle_q6 = 5001 + (10001 * 95) \div 96
    /\ points_log[97].angle_q6 = 15002


(***************************************************************************)
(* C31.  Every distance that reaches add_point is a decoded range of at    *)
(* most 28656 + (510 << 4) = 36816 mm: base + (predict << scale) is never  *)
(* negative before the cast to u32.                                        *)
(***************************************************************************)
CabinReturned ==
    fn_call.op = "cabin" /\ fn_call.n = 1

EmittedDistancesAreDecodedRanges ==
    CabinReturned =>
        \A j \in 1..3 : fn_call.emitted[j] => fn_call.distances[j] <= 36816


(***************************************************************************)
(* C32.  For start angles up to the 15-bit maximum 32767 the 16-bit sum of *)
(* the start angle and the offset never overflows, every point has its     *)
(* angle in 0..23039 and its index in 0..2, and within a packet the sums   *)
(* (the angles before the modulo) never decrease from a point to the next. *)
(***************************************************************************)
AnglesFitAndNeverDecrease ==
    [][ (fn_call.op = "angles" /\ fn_call'.k = fn_call.k + 1)
          => /\ ~fn_call'.overflow
             /\ fn_call'.outcome = "ok"
             /\ fn_call'.angle_q6 \in 0..23039
             /\ fn_call'.index \in 0..2
             /\ fn_call'.index = fn_call.k % 3
             /\ fn_call'.raw >= fn_call.prev_angle
             /\ fn_call'.raw <= 65535
             /\ fn_call.k >= 1 => fn_call'.raw >= fn_call.raw ]_vars

\* the 96 points of a packet that starts at 32767 and is followed by one
\* that starts at 32766: the last sum is beyond twice 23040
LastPointOfWidestPacket ==
    /\ fn_call.op = "angles"
    /\ fn_call.k = 96
    /\ fn_call.prev_angle = 32767
    /\ fn_call.last_angle = 32766
    /\ fn_call.raw = 32767 + (23039 * 95) \div 96
    /\ fn_call.raw > 46080
    /\ fn_call.angle_q6 = fn_call.raw - 46080


(***************************************************************************)
(* C33.  In every iteration of icp_least_squares, the first included, the  *)
(* correspondences are those between the reference cloud and the source    *)
(* cloud transformed by the estimate the iteration starts from: for each   *)
(* source point the index of a reference point at the least distance, the  *)
(* lowest such index.                                                      *)
(***************************************************************************)
IcpIterated ==
    fn_call.op = "icp" /\ fn_call.n = 1

IsNearest(point, q, j) ==
    /\ \A k \in 1..Len(q) : NormSquared(point, q[j + 1]) <= NormSquared(point, q[k])
    /\ \A k \in 1..j : NormSquared(point, q[j + 1]) < NormSquared(point, q[k])

CorrespondencesFollowTheEstimate ==
    (IcpIterated /\ fn_call.loop.q # << >>) =>
        \A i \in 1..Len(fn_call.loop.p) :
            IsNearest(TransformPoint(fn_call.x_used, fn_call.loop.p[i]),
                      fn_call.loop.q, fn_call.correspondences[i])


(***************************************************************************)
(* C34.  Every call of add_scan appends one node, one edge and one stored  *)
(* scan: after n calls the graph has n + 1 nodes, n edges and n stored     *)
(* scans.                                                                  *)
(***************************************************************************)
EveryAddScanAppends ==
    (graph # None /\ graph_call.op \in {"new", "add_scan"}
        /\ "returned" \in DOMAIN graph_call) =>
        /\ Len(graph.nodes) = graph_call.calls + 1
        /\ Len(graph.edges) = graph_call.calls
        /\ Len(node_scans) = graph_call.calls


(***************************************************************************)
(* C35.  add_node_with_odometry(T) on a graph of N nodes appends one node, *)
(* of index N, at the pose of node N - 1 composed with T, and one edge     *)
(* (N - 1, N, T); the nodes and the edges the graph had (node 0 among      *)
(* them) and dirty are as before.                                          *)
(***************************************************************************)
AddNodeStep ==
    /\ graph_call'.op = "add_node_with_odometry"
    /\ graph_call'.calls = graph_call.calls + 1

AddNodeAppendsOneNodeAndOneEdge ==
    [][ AddNodeStep =>
          LET N == Len(graph.nodes)
              edge == graph'.edges[Len(graph'.edges)]
          IN  /\ Len(graph'.nodes) = N + 1
              /\ Len(graph'.edges) = Len(graph.edges) + 1
              /\ SubSeq(graph'.nodes, 1, N) = graph.nodes
              /\ SubSeq(graph'.edges, 1, Len(graph.edges)) = graph.edges
              /\ graph'.nodes[1] = graph.nodes[1]
              /\ graph'.dirty = graph.dirty
              /\ edge.i = N - 1
              /\ edge.j = N
              /\ graph'.nodes[N + 1]
                    = FloatTransformAdd(graph.nodes[N], edge.i_to_j) ]_vars

\* a node has been added one meter ahead of a node that had turned a
\* quarter turn, on a graph that a loop closure had made dirty
NodeAddedAheadOfTurnedNode ==
    /\ graph # None
    /\ graph_call.op = "add_node_with_odometry"
    /\ Len(graph.nodes) = 3
    /\ Len(graph.edges) = 3
    /\ graph.dirty
    /\ graph.nodes[2] = Pose(0, 0, 1)
    /\ graph.nodes[3] = Pose(0, 1, 1)
    /\ graph.edges[3] = [i |-> 1, j |-> 2, i_to_j |-> Pose(1, 0, 0)]


(***************************************************************************)
(* C36.  For every commanded twist each wheel speed that write_outputs     *)
(* converts and sends is at most 0.5 m/s in magnitude, and is 0 or at      *)
(* least 0.02 m/s in magnitude.                                            *)
(***************************************************************************)
WheelSpeedsReturned ==
    fn_call.op = "write_outputs" /\ fn_call.n = 1

WithinLimits(v) ==
    /\ v.den # 0
    /\ Abs(v.num) * 2 <= v.den
    /\ v.num = 0 \/ Abs(v.num) * 50 >= v.den

WheelSpeedsWithinLimits ==
    WheelSpeedsReturned =>
        WithinLimits(fn_call.left_mps) /\ WithinLimits(fn_call.right_mps)

(***************************************************************************)
(* C36, amended.  For every twist whose speed and turn rate are finite,    *)
(* each wheel speed sent is at most 0.5 m/s in magnitude and is 0 or at    *)
(* least 0.02 m/s in magnitude; the speeds are desaturated exactly when    *)
(* one of them exceeds 0.5 m/s, both are then divided by the same factor,  *)
(* which brings the larger to 0.5 m/s, and the deadband is applied to each *)
(* wheel after that.                                                       *)
(***************************************************************************)
FiniteTwist ==
    fn_call.desired.dx.den # 0 /\ fn_call.desired.dtheta.den # 0

Exceeds(v) == Abs(v.num) * 2 > v.den

AtMaxSpeed(v) == Abs(v.num) * 2 = v.den

AfterDeadband(v) == IF Abs(v.num) * 50 < v.den THEN RatZero ELSE v

FiniteWheelSpeedsWithinLimits ==
    (WheelSpeedsReturned /\ FiniteTwist) =>
        /\ WithinLimits(fn_call.left_mps)
        /\ WithinLimits(fn_call.right_mps)
        /\ fn_call.saturated
              <=> (Exceeds(fn_call.left_raw) \/ Exceeds(fn_call.right_raw))
        /\ fn_call.saturated =>
              /\ fn_call.left_mps
                    = AfterDeadband(RatDiv(fn_call.left_raw, fn_call.norm))
              /\ fn_call.right_mps
                    = AfterDeadband(RatDiv(fn_call.right_raw, fn_call.norm))
              /\ AtMaxSpeed(fn_call.left_mps) \/ AtMaxSpeed(fn_call.right_mps)
        /\ ~fn_call.saturated =>
              /\ fn_call.left_mps = AfterDeadband(fn_call.left_raw)
              /\ fn_call.right_mps = AfterDeadband(fn_call.right_raw)

\* a left speed of 0.02 m/s, which the deadband keeps, was scaled down with
\* a right speed of 2.02 m/s and then cut to 0
DeadbandCutAfterDesaturation ==
    /\ WheelSpeedsReturned
    /\ fn_call.saturated
    /\ fn_call.left_raw = Rat(1, 50)
    /\ fn_call.right_raw = Rat(101, 50)
    /\ fn_call.left_mps = RatZero
    /\ fn_call.right_mps = Rat(1, 2)


(***************************************************************************)
(* C37.  Whatever calls of update_odometry, add_vision_measurement and     *)
(* reset_pose were made on a PoseEstimator built at time t0, returned,     *)
(* failed or panicked: the odometry buffer is not empty, the smallest      *)
(* timestamp of the corrections is t0, and sample_at(t) succeeds exactly   *)
(* for the t from t0 on.                                                   *)
(***************************************************************************)
EstimatorBuilt == "world_to_odom" \in DOMAIN estimator

SampleAtSucceedsFromConstructionOn ==
    EstimatorBuilt =>
        /\ estimator.odometry_buffer # << >>
        /\ estimator.world_to_odom # << >>
        /\ estimator.world_to_odom[1].t = EstimatorStart
        /\ \A t \in 0..MaxTime :
              sample_at(estimator, t).ok <=> t >= EstimatorStart

\* a vision measurement stamped before the construction has failed on an
\* estimator that holds a second correction, and left it as it was
EarlyVisionMeasurementFailed ==
    /\ EstimatorBuilt
    /\ estimator_call.op = "add_vision_measurement"
    /\ ~estimator_call.result.ok
    /\ estimator_call.t < EstimatorStart
    /\ Len(estimator.world_to_odom) = 2
    /\ ~sample_at(estimator, estimator_call.t).ok
    /\ sample_at(estimator, EstimatorStart).ok


(***************************************************************************)
(* C38.  In every state that new, update and reset_pose lead to, the       *)
(* heading of the odometry pose is prev_angle_radians.  After an update it *)
(* is the gyro reading minus gyro_offset_radians, and an update with the   *)
(* same gyro reading leads to the same heading whatever the wheel          *)
(* positions are.                                                          *)
(***************************************************************************)
OdometryBuilt == odometry_call.op # "none"

ReadingsOf(t) == DecodeTelemetry(TelemetryBytes(t))

\* h is the heading of a frame, or the heading before any frame
HeadingOfAFrame(h) ==
    \/ h = FloatZero
    \/ \E t \in TelemetryFrames : ReadingsOf(t).heading = h

\* w is the pair of wheel positions of a frame, or the one before any frame
WheelsOfAFrame(w) ==
    \/ w = WheelsZero
    \/ \E t \in TelemetryFrames : ReadingsOf(t).wheel_positions = w

\* h and w are the readings of one frame, or those before any frame
OfOneFrame(h, w) ==
    \/ h = FloatZero /\ w = WheelsZero
    \/ \E t \in TelemetryFrames :
          ReadingsOf(t) = [wheel_positions |-> w, heading |-> h]

(***************************************************************************)
(* C39.  As stated: the heading and the wheel positions a reader of the    *)
(* drivetrain's shared state sees are those of one telemetry frame, and    *)
(* so are the left and the right wheel position.                           *)
(***************************************************************************)
ReaderSeesOneFrame ==
    observed.read =>
        /\ OfOneFrame(observed.heading, observed.wheels)
        /\ WheelsOfAFrame(observed.wheels)

(***************************************************************************)
(* C39, amended.  The left and the right wheel position a reader sees are  *)
(* those of one telemetry frame, and the heading it sees is that of a      *)
(* frame.  The heading and the wheel positions are published one after the *)
(* other: the shared pair is not of one frame only between the two writes, *)
(* where the heading is already the one the task has read and the wheel    *)
(* positions are still the ones published before.                          *)
(***************************************************************************)
ReaderSeesWheelsOfOneFrame ==
    /\ observed.read =>
          /\ WheelsOfAFrame(observed.wheels)
          /\ HeadingOfAFrame(observed.heading)
    /\ OfOneFrame(heading, wheel_positions)
    /\ ~OfOneFrame(shared_heading, shared_wheels) =>
          /\ drive_pc = "publish_wheels"
          /\ shared_heading = heading
          /\ shared_wheels # wheel_positions

\* a reader has seen the heading of one frame with the wheel positions of
\* another
ReaderSawTwoFrames ==
    /\ observed.read
    /\ \E t1 \in TelemetryFrames, t2 \in TelemetryFrames :
          /\ t1 # t2
          /\ ReadingsOf(t1).heading = observed.heading
          /\ ReadingsOf(t2).wheel_positions = observed.wheels

====
